---- MODULE Spec2Model ----
(***************************************************************************)
(* A model of python-args (src/arg/core.py): the signature binder, the     *)
(* lazy call chain, the thread-local Call and the decorator chain engine   *)
(* (Args, Validators, Contexts, Defaults, Parametrize).                    *)
(*                                                                         *)
(* Python values are tagged tuples, so that any two values can be compared:*)
(*   <<"int", n>>  <<"str", s>>  <<"none">>  <<"list", seq>>  <<"tuple",s>>*)
(*   <<"attr", v, name>>        the attribute `name` of v                  *)
(*   <<"call", v, args, kwargs>> the result of calling v                   *)
(*   <<"cm", id, suppress, resource>>  a context manager                   *)
(*   <<"callobj">>              the Call object of the running invocation  *)
(*   <<"setcm", fields>>        the context manager made by Call.set       *)
(*   <<"exc", name>>            an exception                               *)
(* Attribute access and invocation on a value are kept symbolic, so two    *)
(* results are equal only when the same operations were applied, with the  *)
(* same arguments, in the same order.                                      *)
(***************************************************************************)
EXTENDS Integers, Sequences, FiniteSets, TLC

\* ---------------------------------------------------------------- bounds
MaxVal == 2          \* parametrized values are drawn from 1..MaxVal
MaxLazyOps == 3      \* operations recorded on one Lazy value

\* ---------------------------------------------------------------- values
I(n) == <<"int", n>>
S(s) == <<"str", s>>
None == <<"none">>
L(seq) == <<"list", seq>>
Tup(seq) == <<"tuple", seq>>
Exc(name) == <<"exc", name>>
BindError == Exc("BindError")
AssertionError == Exc("AssertionError")
ValueError == Exc("ValueError")
CallObj == <<"callobj">>

Ret(v) == [kind |-> "ret", val |-> v]
Raise(e) == [kind |-> "exc", val |-> e]
NoSig == [kind |-> "none", val |-> None]

EmptyMap == [k \in {} |-> None]
Restrict(m, ks) == [k \in ks |-> m[k]]
\* {**m1, **m2}: the entries of m2 win
Merge(m1, m2) == [k \in DOMAIN m1 \cup DOMAIN m2 |->
                    IF k \in DOMAIN m2 THEN m2[k] ELSE m1[k]]

Min(a, b) == IF a < b THEN a ELSE b

\* ------------------------------------------------------- signature binder
\* A signature is a sequence of parameters [name, hasdef, def].
P(n) == [name |-> n, hasdef |-> FALSE, def |-> None]
PD(n, d) == [name |-> n, hasdef |-> TRUE, def |-> d]

SigNames(sig) == {sig[i].name : i \in 1..Len(sig)}
SigRequired(sig) == {sig[i].name : i \in {j \in 1..Len(sig) : ~sig[j].hasdef}}
SigIndex(sig, n) == CHOOSE i \in 1..Len(sig) : sig[i].name = n

\* the binder without bound.apply_defaults(): a parameter nobody filled is
\* left out even when it declares a default
ParseArgsNoDefaults(sig, args, kwargs, extra, partial) ==
  LET names == SigNames(sig)
      kw == Restrict(kwargs, DOMAIN kwargs \cap names)
      posNames == {sig[i].name : i \in 1..Min(Len(args), Len(sig))}
      given == posNames \cup DOMAIN kw
      bound == [n \in given |-> IF n \in posNames THEN args[SigIndex(sig, n)] ELSE kw[n]]
      extras == IF extra THEN Restrict(kwargs, DOMAIN kwargs \ names) ELSE EmptyMap
  IN IF Len(args) > Len(sig) \/ posNames \cap DOMAIN kw # {}
        \/ (~partial /\ SigRequired(sig) \ given # {})
     THEN [ok |-> FALSE, m |-> EmptyMap]
     ELSE [ok |-> TRUE, m |-> Merge(bound, extras)]

\* _parse_args(func, args, kwargs, extra, partial): [ok, m]; ok = FALSE is
\* the BindError raised from the TypeError of bind / bind_partial.
ParseArgs(sig, args, kwargs, extra, partial) ==
  LET names == SigNames(sig)
      kw == Restrict(kwargs, DOMAIN kwargs \cap names)
      posNames == {sig[i].name : i \in 1..Min(Len(args), Len(sig))}
      tooMany == Len(args) > Len(sig)
      multiple == posNames \cap DOMAIN kw # {}
      given == posNames \cup DOMAIN kw
      missing == SigRequired(sig) \ given
      defaulted == {sig[i].name : i \in {j \in 1..Len(sig) : sig[j].hasdef}} \ given
      bound == [n \in given \cup defaulted |->
                  IF n \in posNames THEN args[SigIndex(sig, n)]
                  ELSE IF n \in DOMAIN kw THEN kw[n]
                  ELSE sig[SigIndex(sig, n)].def]
      extras == IF extra THEN Restrict(kwargs, DOMAIN kwargs \ names) ELSE EmptyMap
  IN IF tooMany \/ multiple \/ (~partial /\ missing # {})
     THEN [ok |-> FALSE, m |-> EmptyMap]
     ELSE [ok |-> TRUE, m |-> Merge(bound, extras)]

\* ------------------------------------------------------------------ Call
B(b) == <<"bool", b>>
Truthy(v) == v = B(TRUE)

\* Call.__init__; has = FALSE is "_current_call has no attribute val"
NewCall == [has |-> TRUE, is_partial |-> B(FALSE), is_pre_func |-> B(FALSE),
            parametrize_arg |-> None, parametrize_arg_val |-> None,
            parametrize_arg_index |-> None, parametrize_arg_vals |-> None]
NoCall == [NewCall EXCEPT !.has = FALSE]

\* Call.set, the part of temporary_set before the yield
SetOrig(c, fields) == [k \in DOMAIN fields |-> c[k]]
SetEnter(c, fields) == [k \in DOMAIN c |-> IF k \in DOMAIN fields THEN fields[k] ELSE c[k]]
\* Call.set, leaving the scope: the statements after the yield run only when
\* the body did not raise (the generator has no try/finally)
SetExit(c, orig, raised) == IF raised THEN c ELSE SetEnter(c, orig)

\* the Call returned even when the thread has none
CurrentCallAlways(c) == Ret(CallObj)

\* None returned when the thread has no Call
CurrentCallOrNone(c) == IF c.has THEN Ret(CallObj) ELSE Ret(None)

\* call(): the Call of the running invocation; AssertionError when the
\* thread has no attribute val
CurrentCall(c) == IF c.has THEN Ret(CallObj) ELSE Raise(AssertionError)

\* ------------------------------------------------------------ user code
\* A plain callable: its signature and what its body does.
Py(sig, body, c) == [kind |-> "py", sig |-> sig, body |-> body, c |-> c]

Run(fn, m, c) ==
  CASE fn.body = "none" -> Ret(None)
    [] fn.body = "raise" -> Raise(fn.c)
    [] fn.body = "reject" -> IF m[fn.sig[1].name] = fn.c THEN Raise(ValueError) ELSE Ret(None)
    [] fn.body = "id" -> Ret(m[fn.sig[1].name])
    [] fn.body = "args" -> Ret(Tup([i \in 1..Len(fn.sig) |-> m[fn.sig[i].name]]))
    [] fn.body = "const" -> Ret(fn.c)
    [] fn.body = "call" -> CurrentCall(c)
    [] fn.body = "report" ->
         IF c.has
         THEN Ret(Tup(<<m[fn.sig[1].name], c.parametrize_arg, c.parametrize_arg_val,
                        c.parametrize_arg_index, c.parametrize_arg_vals>>))
         ELSE Raise(AssertionError)
    [] fn.body \in {"invoke", "invoke_catch"} -> [kind |-> "invoke", val |-> None]
    [] OTHER -> Raise(Exc("TypeError"))

\* fn(**m): Python itself refuses a call that leaves a required parameter
\* unset or passes a keyword the function does not declare
PyCall(fn, m, c) ==
  IF SigRequired(fn.sig) \subseteq DOMAIN m /\ DOMAIN m \subseteq SigNames(fn.sig)
  THEN Run(fn, ParseArgs(fn.sig, <<>>, m, FALSE, FALSE).m, c)
  ELSE Raise(Exc("TypeError"))

\* ------------------------------------------------------------------ Lazy
\* A step of _call_chain is <<name, args, kwargs>>; None as in the source.
Step(name, args, kwargs) == <<name, args, kwargs>>
Dict(m) == <<"dict", m>>

\* func.__init__
Func(w, hasdef, d, chain) ==
  [kind |-> "func", wraps |-> w, func |-> IF w.kind = "func" THEN w.func ELSE w,
   hasdef |-> hasdef, default |-> d, chain |-> chain]
\* val.__init__: func(lambda arg: arg)
Val(arg, chain) == Func(Py(<<P(arg)>>, "id", None), FALSE, None, chain)
ValDefault(arg, d, chain) == Func(Py(<<P(arg)>>, "id", None), TRUE, d, chain)

IsLazy(x) == x.kind \in {"func", "first", "init"}

Getattr(v, name) == <<"attr", v, name>>
CallValue(v, args, kwargs) ==
  IF v = Getattr(CallObj, S("set")) THEN <<"setcm", kwargs[2]>>
  ELSE <<"call", v, args, kwargs>>

\* Lazy.__getattribute__ for a public name, and Lazy.__call__
LazyGetattribute(chain, name) == Append(chain, Step(name, None, None))
\* every invocation recorded as a step of its own
LazyDunderCallAppends(chain, args, kwargs) == Append(chain, Step(None, args, kwargs))

LazyDunderCall(chain, args, kwargs) ==
  IF chain # <<>>
  THEN [chain EXCEPT ![Len(chain)] = Step(chain[Len(chain)][1], args, kwargs)]
  ELSE Append(chain, Step(None, args, kwargs))

\* the loop of Lazy._load
RECURSIVE Replay(_, _)
Replay(v, chain) ==
  IF chain = <<>> THEN v
  ELSE LET st == Head(chain)
           v1 == IF st[1] = None THEN CallValue(v, Tup(<<>>), Dict(EmptyMap))
                 ELSE IF <<st[2], st[3]>> # <<None, None>>
                      THEN CallValue(Getattr(v, st[1]), st[2], st[3])
                      ELSE Getattr(v, st[1])
       IN Replay(v1, Tail(chain))

\* inspect.signature of a Lazy object is that of Lazy.__call__, (*args,
\* **kwargs): of the entries of the mapping only those named args or kwargs
\* pass the filter, bind puts them under **kwargs, and apply_defaults gives
\* args = () when nothing was passed positionally
ParseLazy(kwargs) ==
  [args |-> Tup(<<>>), kwargs |-> Dict(Restrict(kwargs, DOMAIN kwargs \cap {"args", "kwargs"}))]

\* first.__init__: a string candidate is val(string), a callable func(callable)
First(cands, hasdef, d) ==
  [kind |-> "first",
   vals |-> [i \in 1..Len(cands) |->
               IF cands[i].kind = "py" THEN Func(cands[i], FALSE, None, <<>>) ELSE cands[i]],
   hasdef |-> hasdef, default |-> d, chain |-> <<>>]

\* an argument of init: a plain value, or a Lazy value to load
Arg(v) == [lazy |-> FALSE, v |-> v]
LazyArg(x) == [lazy |-> TRUE, v |-> x]
\* init.__init__
InitOf(class, args) == [kind |-> "init", class |-> class, args |-> args, chain |-> <<>>]

RECURSIVE Load(_, _, _)
\* the default returned whenever one was given, the mapping not looked at
FuncCallDefaultWins(lz, m, c) ==
  IF lz.hasdef THEN Ret(lz.default)
  ELSE LET p == IF IsLazy(lz.func) THEN [ok |-> TRUE, m |-> ParseLazy(m)]
                ELSE ParseArgs(lz.func.sig, <<>>, m, FALSE, FALSE)
       IN IF ~p.ok THEN Raise(BindError)
          ELSE IF IsLazy(lz.wraps) THEN Load(lz.wraps, p.m, c)
          ELSE PyCall(lz.wraps, p.m, c)

\* func._call
FuncCall(lz, m, c) ==
  LET p == IF IsLazy(lz.func) THEN [ok |-> TRUE, m |-> ParseLazy(m)]
           ELSE ParseArgs(lz.func.sig, <<>>, m, FALSE, FALSE)
  IN IF ~p.ok THEN (IF lz.hasdef THEN Ret(lz.default) ELSE Raise(BindError))
     ELSE IF IsLazy(lz.wraps) THEN Load(lz.wraps, p.m, c)
     ELSE PyCall(lz.wraps, p.m, c)

\* every candidate loaded, the result of the last loadable one returned
RECURSIVE FirstLoopLast(_, _, _, _)
FirstLoopLast(lz, i, m, c) ==
  IF i > Len(lz.vals)
  THEN [out |-> IF lz.hasdef THEN Ret(lz.default) ELSE Raise(BindError), n |-> Len(lz.vals)]
  ELSE LET o == Load(lz.vals[i], m, c)
           r == FirstLoopLast(lz, i + 1, m, c)
       IN IF o = Raise(BindError) \/ \E j \in (i + 1)..Len(lz.vals) :
                                        Load(lz.vals[j], m, c) # Raise(BindError)
          THEN r ELSE [out |-> o, n |-> Len(lz.vals)]

\* the loop of first._call from candidate i on: the outcome and the number
\* of candidates loaded
RECURSIVE FirstLoop(_, _, _, _)
FirstLoop(lz, i, m, c) ==
  IF i > Len(lz.vals)
  THEN [out |-> IF lz.hasdef THEN Ret(lz.default) ELSE Raise(BindError), n |-> Len(lz.vals)]
  ELSE LET o == Load(lz.vals[i], m, c)
       IN IF o = Raise(BindError) THEN FirstLoop(lz, i + 1, m, c)
          ELSE [out |-> o, n |-> i]

\* first._call
FirstCall(lz, m, c) == FirstLoop(lz, 1, m, c).out

\* the arguments of init loaded in order: the values, or the first error
RECURSIVE LoadArgs(_, _, _, _)
LoadArgs(args, done, m, c) ==
  IF args = <<>> THEN Ret(Tup(done))
  ELSE LET o == IF Head(args).lazy THEN Load(Head(args).v, m, c) ELSE Ret(Head(args).v)
       IN IF o.kind = "ret" THEN LoadArgs(Tail(args), Append(done, o.val), m, c) ELSE o

\* init._call
InitCall(lz, m, c) ==
  LET o == LoadArgs(lz.args, <<>>, m, c)
  IN IF o.kind = "ret" THEN Ret(CallValue(lz.class, o.val, Dict(EmptyMap))) ELSE o

\* the supplied default returned as it is, nothing replayed on it
LazyLoadDefaultAsIs(lz, m, c) ==
  LET o == CASE lz.kind = "first" -> FirstCall(lz, m, c)
             [] lz.kind = "init" -> InitCall(lz, m, c)
             [] OTHER -> FuncCall(lz, m, c)
      isdef == lz.kind # "init" /\ lz.hasdef /\ o = Ret(lz.default)
  IN IF o.kind = "ret" /\ ~isdef THEN Ret(Replay(o.val, lz.chain)) ELSE o

\* Lazy._load
LazyLoad(lz, m, c) ==
  LET o == CASE lz.kind = "first" -> FirstCall(lz, m, c)
             [] lz.kind = "init" -> InitCall(lz, m, c)
             [] OTHER -> FuncCall(lz, m, c)
  IN IF o.kind = "ret" THEN Ret(Replay(o.val, lz.chain)) ELSE o

\* load(lazy, **call_args)
Load(x, m, c) == LazyLoad(IF IsLazy(x) THEN x ELSE Func(x, FALSE, None, <<>>), m, c)

\* ------------------------------------------------------- decorator chains
\* A chain is the sequence of its nodes, outermost first, and the innermost
\* plain callable (Args._func).
Validators(fns) == [kind |-> "Validators", fns |-> fns]
Defaults(defs) == [kind |-> "Defaults", fns |-> defs]
Parametrize(arg, fn) == [kind |-> "Parametrize", arg |-> arg, fn |-> fn]
\* contexts(*context_managers, **named_context_managers): the unnamed ones
\* first, keyed by themselves (key None here), then the named ones
Contexts(unnamed, named) ==
  [kind |-> "Contexts",
   fns |-> [i \in 1..Len(unnamed) |-> [key |-> None, fn |-> unnamed[i]]] \o named]
Named(key, fn) == [key |-> S(key), fn |-> fn]
Chain(nodes, target) == [nodes |-> nodes, target |-> target]

\* isinstance(wraps, Args): a chain, not a plain callable
IsArgs(wraps) == "nodes" \in DOMAIN wraps
\* decorator(wraps): the node d around wraps; Args.__init__ takes the
\* wrapped function of a chain as its own
Decorate(d, wraps) ==
  IF IsArgs(wraps) THEN Chain(<<d>> \o wraps.nodes, wraps.target) ELSE Chain(<<d>>, wraps)

\* @d1 ... @dn above def f: dn is applied first, d1 last
RECURSIVE Stacked(_, _)
Stacked(ds, f) == IF ds = <<>> THEN f ELSE Decorate(Head(ds), Stacked(Tail(ds), f))

\* the decorators applied in the order given, the first one innermost
RECURSIVE ArgSLoopForward(_, _)
ArgSLoopForward(ds, wraps) ==
  IF ds = <<>> THEN wraps ELSE ArgSLoopForward(Tail(ds), Decorate(Head(ds), wraps))

\* for arg_decorator in reversed(arg_decorators): wraps = arg_decorator(wraps)
RECURSIVE ArgSLoop(_, _)
ArgSLoop(ds, wraps) ==
  IF ds = <<>> THEN wraps
  ELSE ArgSLoop(SubSeq(ds, 1, Len(ds) - 1), Decorate(ds[Len(ds)], wraps))

\* arg.s(*arg_decorators)(wraps)
ArgS(ds, wraps) ==
  LET w == ArgSLoop(ds, wraps) IN IF IsArgs(w) THEN w ELSE Chain(<<>>, w)

\* func(call).set(**fields), as built by Args.partial and Args.pre_func
CallSet(fields) ==
  Func(Py(<<>>, "call", None), FALSE, None,
       LazyDunderCall(LazyGetattribute(<<>>, S("set")), Tup(<<>>), Dict(fields)))
\* Args.partial and Args.pre_func: one more Contexts node around the chain
Partial(ch) ==
  Chain(<<Contexts(<<CallSet([is_partial |-> B(TRUE)])>>, <<>>)>> \o ch.nodes, ch.target)
PreFunc(ch) ==
  Chain(<<Contexts(<<CallSet([is_pre_func |-> B(TRUE)])>>, <<>>)>> \o ch.nodes, ch.target)

\* a BindError swallowed whatever the mode
SuppressBindAlways(e, c) == e = BindError

\* every exception swallowed in partial mode
SuppressAnyInPartial(e, c) == Truthy(c.is_partial)

\* no exception swallowed in any mode
SuppressNever(e, c) == FALSE

\* _suppress_bind_errors_in_partial_call: is the exception e swallowed?
SuppressBind(e, c) == e = BindError /\ Truthy(c.is_partial)

\* ------------------------------------------------------------------ state
Threads == {1, 2}

VARIABLES
  cur,     \* cur[t]: _current_call.val of thread t (has = FALSE: no attribute)
  stack,   \* stack[t]: the frames of the calls in progress, innermost last
  sig,     \* sig[t]: what the call that just finished returned or raised
  log,     \* log[t]: the calls into user code made by the running invocation
  inv,     \* inv[t]: the top-level invocation thread t made last
  live,    \* the threads that run
  lazy     \* a Lazy value under construction: its _call_chain, the operations
           \* made on it so far, and the outcome of its last load
vars == <<cur, stack, sig, log, inv, live, lazy>>

Frame(k, chain, idx, pc, pos, args) ==
  [k |-> k, chain |-> chain, idx |-> idx, pc |-> pc, pos |-> pos, args |-> args,
   acc |-> EmptyMap, i |-> 1, res |-> <<>>, es |-> <<>>, vals |-> None,
   orig |-> EmptyMap, out |-> NoSig, fn |-> None]

\* the frame of the _call of node idx of the chain (past the last node: the
\* part of Args._call that runs the wrapped function)
NodeFrame(chain, idx, m) ==
  IF idx > Len(chain.nodes) THEN Frame("term", chain, idx, "run", <<>>, m)
  ELSE Frame("node", chain, idx,
             IF chain.nodes[idx].kind = "Parametrize" THEN "load" ELSE "loop", <<>>, m)
FnFrame(fn) == [Frame("fn", Chain(<<>>, fn), 0, "invoke", <<>>, EmptyMap) EXCEPT !.fn = fn]

Top(t) == stack[t][Len(stack[t])]
Pop(s) == SubSeq(s, 1, Len(s) - 1)
SetTop(s, f) == [s EXCEPT ![Len(s)] = f]
Running(t, k) == t \in live /\ stack[t] # <<>> /\ Top(t).k = k
InNode(t, kind, pc) ==
  /\ Running(t, "node")
  /\ Top(t).chain.nodes[Top(t).idx].kind = kind
  /\ Top(t).pc = pc
NodeOf(f) == f.chain.nodes[f.idx]

Ev(ev, role, idx, i, m, c, v) ==
  [ev |-> ev, role |-> role, idx |-> idx, i |-> i, m |-> m, c |-> c, v |-> v]
\* the number of resources entered so far: the next one gets the next number
Entered(l) == Cardinality({j \in 1..Len(l) : l[j].ev = "enter"})

\* one attribute seen by every thread
Shared(cu, t, c) == [u \in DOMAIN cu |-> c]

\* _current_call = threading.local(): thread t assigns its own attribute
Local(cu, t, c) == [cu EXCEPT ![t] = c]

Upd(t, c, s, g, l) ==
  /\ cur' = Local(cur, t, c)
  /\ stack' = [stack EXCEPT ![t] = s]
  /\ sig' = [sig EXCEPT ![t] = g]
  /\ log' = [log EXCEPT ![t] = l]

\* the result of evaluating a function of a node: what the nested call it
\* made has delivered, or else its evaluation by load()
Eval(t, fn, m) == IF sig[t].kind # "none" THEN sig[t] ELSE Load(fn, m, cur[t])
Logged(t, role, f, m, o) ==
  IF sig[t].kind # "none" THEN log[t]
  ELSE Append(log[t], Ev("load", role, f.idx, f.i, m, cur[t], o))

PyOf(fn) == IF IsLazy(fn) THEN fn.func ELSE fn

\* ------------------------------------------------------------ Args.__call__
\* Args.__call__ without the reentrancy check
ArgsCallUnchecked(c, chain, pos, kwargs) ==
  [cur |-> NewCall, push |-> <<Frame("call", chain, 0, "bind", pos, kwargs)>>, sig |-> NoSig]

\* the rejected invocation leaves the thread with a fresh Call
ArgsCallResets(c, chain, pos, kwargs) ==
  IF c.has
  THEN [cur |-> NewCall, push |-> <<>>, sig |-> Raise(AssertionError)]
  ELSE [cur |-> NewCall, push |-> <<Frame("call", chain, 0, "bind", pos, kwargs)>>,
        sig |-> NoSig]

\* The entry of Args.__call__: the reentrancy check and the new Call.
\* push is the frame of the accepted invocation, empty when it is rejected.
ArgsCall(c, chain, pos, kwargs) ==
  IF c.has
  THEN [cur |-> c, push |-> <<>>, sig |-> Raise(AssertionError)]
  ELSE [cur |-> NewCall, push |-> <<Frame("call", chain, 0, "bind", pos, kwargs)>>,
        sig |-> NoSig]

\* the Call cleared on a normal return only
CallExitOnReturnOnly(c, raised) == IF raised THEN c ELSE NoCall

\* the finally clause of Args.__call__: delattr(_current_call, 'val')
CallExit(c, raised) == NoCall

\* the top-level bind made without the extra keywords and strictly
EntryParseStrict(target, pos, kwargs) == ParseArgs(target.sig, pos, kwargs, FALSE, FALSE)

\* _parse_args(self.func, args, kwargs, extra=True, partial=True)
EntryParse(target, pos, kwargs) == ParseArgs(target.sig, pos, kwargs, TRUE, TRUE)

\* the try block of Args.__call__ up to the call of self._call
CallBind(t) ==
  /\ Running(t, "call") /\ Top(t).pc = "bind"
  /\ LET f == Top(t)
         p == EntryParse(f.chain.target, f.pos, f.args)
     IN IF p.ok
        THEN Upd(t, cur[t],
                 Append(SetTop(stack[t], [f EXCEPT !.pc = "run"]), NodeFrame(f.chain, 1, p.m)),
                 NoSig, log[t])
        ELSE Upd(t, cur[t], SetTop(stack[t], [f EXCEPT !.pc = "run"]),
                 Raise(BindError), log[t])
  /\ UNCHANGED <<inv, live, lazy>>

CallFinally(t) ==
  /\ Running(t, "call") /\ Top(t).pc = "run" /\ sig[t].kind # "none"
  /\ Upd(t, CallExit(cur[t], sig[t].kind = "exc"), Pop(stack[t]), sig[t], log[t])
  /\ UNCHANGED <<inv, live, lazy>>

\* ------------------------------------------------------------- Validators
ValidatorsLoop(t) ==
  /\ InNode(t, "Validators", "loop") /\ Top(t).i <= Len(NodeOf(Top(t)).fns)
  /\ LET f == Top(t)
         fn == NodeOf(f).fns[f.i]
         o == Eval(t, fn, f.args)
         l == Logged(t, "validator", f, f.args, o)
     IN IF o.kind = "invoke"
        THEN Upd(t, cur[t], Append(stack[t], FnFrame(PyOf(fn))), NoSig, l)
        ELSE IF o.kind = "exc" /\ ~SuppressBind(o.val, cur[t])
        THEN Upd(t, cur[t], Pop(stack[t]), o, l)
        ELSE Upd(t, cur[t], SetTop(stack[t], [f EXCEPT !.i = f.i + 1]), NoSig, l)
  /\ UNCHANGED <<inv, live, lazy>>

\* return super()._call(kwargs)
ValidatorsSuper(t) ==
  /\ InNode(t, "Validators", "loop") /\ Top(t).i > Len(NodeOf(Top(t)).fns)
  /\ LET f == Top(t)
     IN Upd(t, cur[t],
            Append(SetTop(stack[t], [f EXCEPT !.pc = "super"]),
                   NodeFrame(f.chain, f.idx + 1, f.args)),
            NoSig, log[t])
  /\ UNCHANGED <<inv, live, lazy>>

\* a node whose last statement was the call of the inner chain returns
\* what that call returned or raised
NodeReturn(t) ==
  /\ Running(t, "node") /\ Top(t).pc = "super" /\ sig[t].kind # "none"
  /\ NodeOf(Top(t)).kind \in {"Validators", "Defaults", "Parametrize"}
  /\ Upd(t, cur[t], Pop(stack[t]), sig[t], log[t])
  /\ UNCHANGED <<inv, live, lazy>>

\* --------------------------------------------------------------- Defaults
\* the caller's values win over the computed defaults
DefaultsArgsCallerWins(call_args, default_args) == Merge(default_args, call_args)

\* the defaults already computed left out
DefaultsArgsIncomingOnly(call_args, default_args) == call_args

\* {**call_args, **default_args}
DefaultsArgs(call_args, default_args) == Merge(call_args, default_args)

DefaultsLoop(t) ==
  /\ InNode(t, "Defaults", "loop") /\ Top(t).i <= Len(NodeOf(Top(t)).fns)
  /\ LET f == Top(t)
         d == NodeOf(f).fns[f.i]
         m == DefaultsArgs(f.args, f.acc)
         o == Eval(t, d.fn, m)
         l == Logged(t, "default", f, m, o)
     IN IF o.kind = "invoke"
        THEN Upd(t, cur[t], Append(stack[t], FnFrame(PyOf(d.fn))), NoSig, l)
        ELSE IF o.kind = "exc" /\ ~SuppressBind(o.val, cur[t])
        THEN Upd(t, cur[t], Pop(stack[t]), o, l)
        ELSE IF o.kind = "exc"
        THEN Upd(t, cur[t], SetTop(stack[t], [f EXCEPT !.i = f.i + 1]), NoSig, l)
        ELSE Upd(t, cur[t],
                 SetTop(stack[t], [f EXCEPT !.i = f.i + 1,
                                            !.acc = Merge(f.acc, d.key[2] :> o.val)]),
                 NoSig, l)
  /\ UNCHANGED <<inv, live, lazy>>

DefaultsSuper(t) ==
  /\ InNode(t, "Defaults", "loop") /\ Top(t).i > Len(NodeOf(Top(t)).fns)
  /\ LET f == Top(t)
     IN Upd(t, cur[t],
            Append(SetTop(stack[t], [f EXCEPT !.pc = "super"]),
                   NodeFrame(f.chain, f.idx + 1, DefaultsArgs(f.args, f.acc))),
            NoSig, log[t])
  /\ UNCHANGED <<inv, live, lazy>>

\* --------------------------------------------------------------- Contexts
\* the caller's values win over the resources
ContextsArgsCallerWins(call_args, context_args) == Merge(context_args, call_args)

\* {**call_args, **context_args}
ContextsArgs(call_args, context_args) == Merge(call_args, context_args)

\* ExitStack.enter_context(v): __enter__ of a user's context manager gives
\* its resource; __enter__ of the manager of Call.set applies the overrides
EnterContext(v, c) ==
  CASE v[1] = "cm" -> [ok |-> TRUE, cur |-> c, orig |-> EmptyMap, resource |-> v[4]]
    [] v[1] = "setcm" ->
         [ok |-> TRUE, cur |-> SetEnter(c, v[2]), orig |-> SetOrig(c, v[2]), resource |-> None]
    [] OTHER -> [ok |-> FALSE, cur |-> c, orig |-> EmptyMap, resource |-> None]

\* __exit__ of a user's manager never swallows the exception
ExitContextKeeps(e, c, out) ==
  IF e.cm[1] = "setcm"
  THEN [cur |-> SetExit(c, e.orig, out.kind = "exc"), out |-> out]
  ELSE [cur |-> c, out |-> out]

\* __exit__ of one entered manager, given the pending outcome: a user's
\* manager may swallow the exception, the manager of Call.set never does
ExitContext(e, c, out) ==
  IF e.cm[1] = "setcm"
  THEN [cur |-> SetExit(c, e.orig, out.kind = "exc"), out |-> out]
  ELSE [cur |-> c,
        out |-> IF out.kind = "exc" /\ e.cm[3] THEN [kind |-> "swallowed", val |-> out.val]
                ELSE out]

\* the manager entered first is released first
ExitNextFirst(es) == 1

\* ExitStack releases the manager entered last
ExitNext(es) == Len(es)

ContextsLoop(t) ==
  /\ InNode(t, "Contexts", "loop") /\ Top(t).i <= Len(NodeOf(Top(t)).fns)
  /\ LET f == Top(t)
         x == NodeOf(f).fns[f.i]
         m == ContextsArgs(f.args, f.acc)
         o == Eval(t, x.fn, m)
         l == Logged(t, "context", f, m, o)
         en == EnterContext(o.val, cur[t])
         rid == Entered(l) + 1
     IN IF o.kind = "invoke"
        THEN Upd(t, cur[t], Append(stack[t], FnFrame(PyOf(x.fn))), NoSig, l)
        ELSE IF o.kind = "exc" /\ SuppressBind(o.val, cur[t])
        THEN Upd(t, cur[t], SetTop(stack[t], [f EXCEPT !.i = f.i + 1]), NoSig, l)
        ELSE IF o.kind = "exc"
        THEN Upd(t, cur[t], SetTop(stack[t], [f EXCEPT !.pc = "unwind", !.out = o]), NoSig, l)
        ELSE IF ~en.ok
        THEN Upd(t, cur[t],
                 SetTop(stack[t], [f EXCEPT !.pc = "unwind", !.out = Raise(Exc("TypeError"))]),
                 NoSig, l)
        ELSE Upd(t, en.cur,
                 SetTop(stack[t],
                   [f EXCEPT !.i = f.i + 1,
                             !.es = Append(f.es, [cm |-> o.val, orig |-> en.orig, rid |-> rid]),
                             !.acc = IF x.key # None
                                     THEN Merge(f.acc, x.key[2] :> en.resource) ELSE f.acc]),
                 NoSig,
                 Append(l, Ev("enter", o.val[1], f.idx, rid, en.orig, en.cur, o.val)))
  /\ UNCHANGED <<inv, live, lazy>>

ContextsSuper(t) ==
  /\ InNode(t, "Contexts", "loop") /\ Top(t).i > Len(NodeOf(Top(t)).fns)
  /\ LET f == Top(t)
     IN Upd(t, cur[t],
            Append(SetTop(stack[t], [f EXCEPT !.pc = "super"]),
                   NodeFrame(f.chain, f.idx + 1, ContextsArgs(f.args, f.acc))),
            NoSig, Append(log[t], Ev("inner", "cm", f.idx, 0, f.args, cur[t], None)))
  /\ UNCHANGED <<inv, live, lazy>>

\* the inner chain has returned or raised: the with block is left
ContextsLeave(t) ==
  /\ InNode(t, "Contexts", "super") /\ sig[t].kind # "none"
  /\ Upd(t, cur[t], SetTop(stack[t], [Top(t) EXCEPT !.pc = "unwind", !.out = sig[t]]),
         NoSig, Append(log[t], Ev("inner_done", "cm", Top(t).idx, 0, Top(t).args, cur[t], sig[t])))
  /\ UNCHANGED <<inv, live, lazy>>

\* ExitStack.__exit__: one entered manager is released
ContextsExit(t) ==
  /\ InNode(t, "Contexts", "unwind") /\ Top(t).es # <<>>
  /\ LET f == Top(t)
         j == ExitNext(f.es)
         e == f.es[j]
         x == ExitContext(e, cur[t], f.out)
     IN Upd(t, x.cur,
            SetTop(stack[t],
              [f EXCEPT !.es = [k \in 1..(Len(f.es) - 1) |-> IF k < j THEN f.es[k] ELSE f.es[k + 1]],
                        !.out = x.out]),
            NoSig,
            Append(log[t], Ev("exit", e.cm[1], f.idx, e.rid, e.orig, x.cur,
                              B(x.out.kind = "swallowed" /\ f.out.kind = "exc"))))
  /\ UNCHANGED <<inv, live, lazy>>

\* every manager is released: the node returns the inner result, raises the
\* pending exception, or, the exception swallowed, returns None
ContextsReturn(t) ==
  /\ InNode(t, "Contexts", "unwind") /\ Top(t).es = <<>>
  /\ Upd(t, cur[t], Pop(stack[t]),
         IF Top(t).out.kind = "swallowed" THEN Ret(None) ELSE Top(t).out, log[t])
  /\ UNCHANGED <<inv, live, lazy>>

\* ------------------------------------------------------------ Parametrize
\* the fields Parametrize._call overrides for the value at (1-based) index i
ParamFields(arg, vals, i) ==
  [parametrize_arg |-> S(arg), parametrize_arg_val |-> vals[2][i],
   parametrize_arg_vals |-> vals, parametrize_arg_index |-> I(i - 1)]
\* {**call_args, **{self._parametrize_arg: arg_val}}
ParamArgs(call_args, arg, v) == Merge(call_args, arg :> v)
\* results.insert(0, ...)
ParamCollectFront(res, r) == <<r>> \o res

\* results.append(...)
ParamCollect(res, r) == Append(res, r)

ParametrizeLoad(t) ==
  /\ InNode(t, "Parametrize", "load")
  /\ LET f == Top(t)
         n == NodeOf(f)
         o == Eval(t, n.fn, f.args)
         l == Logged(t, "parametrize", f, f.args, o)
     IN IF o.kind = "invoke"
        THEN Upd(t, cur[t], Append(stack[t], FnFrame(PyOf(n.fn))), NoSig, l)
        ELSE IF o.kind = "exc" /\ SuppressBind(o.val, cur[t])
        THEN Upd(t, cur[t], SetTop(stack[t], [f EXCEPT !.pc = "fallthrough"]), NoSig, l)
        ELSE IF o.kind = "exc"
        THEN Upd(t, cur[t], Pop(stack[t]), o, l)
        ELSE IF o.val[1] # "list"
        THEN Upd(t, cur[t], Pop(stack[t]), Raise(Exc("TypeError")), l)
        ELSE Upd(t, cur[t], SetTop(stack[t], [f EXCEPT !.pc = "iter", !.vals = o.val]), NoSig, l)
  /\ UNCHANGED <<inv, live, lazy>>

\* the next value: enter call().set(...) and run the inner chain
ParametrizeIter(t) ==
  /\ InNode(t, "Parametrize", "iter") /\ Top(t).i <= Len(Top(t).vals[2])
  /\ LET f == Top(t)
         n == NodeOf(f)
         fields == ParamFields(n.arg, f.vals, f.i)
         c == SetEnter(cur[t], fields)
     IN Upd(t, c,
            Append(SetTop(stack[t], [f EXCEPT !.pc = "body", !.orig = SetOrig(cur[t], fields)]),
                   NodeFrame(f.chain, f.idx + 1, ParamArgs(f.args, n.arg, f.vals[2][f.i]))),
            NoSig,
            Append(log[t], Ev("set", "parametrize", f.idx, f.i, SetOrig(cur[t], fields), c, f.vals)))
  /\ UNCHANGED <<inv, live, lazy>>

\* the inner chain returned: collect its result and leave call().set(...)
ParametrizeCollect(t) ==
  /\ InNode(t, "Parametrize", "body") /\ sig[t].kind = "ret"
  /\ LET f == Top(t)
         c == SetExit(cur[t], f.orig, FALSE)
     IN Upd(t, c,
            SetTop(stack[t], [f EXCEPT !.pc = "iter", !.i = f.i + 1,
                                       !.res = ParamCollect(f.res, sig[t].val)]),
            NoSig,
            Append(log[t], Ev("unset", "parametrize", f.idx, f.i, f.orig, c, sig[t])))
  /\ UNCHANGED <<inv, live, lazy>>

\* the inner chain raised: call().set(...) is left with the exception, which
\* then reaches _suppress_bind_errors_in_partial_call
ParametrizeExcept(t) ==
  /\ InNode(t, "Parametrize", "body") /\ sig[t].kind = "exc"
  /\ LET f == Top(t)
         c == SetExit(cur[t], f.orig, TRUE)
         l == Append(log[t], Ev("unset", "parametrize", f.idx, f.i, f.orig, c, sig[t]))
     IN IF SuppressBind(sig[t].val, c)
        THEN Upd(t, c, SetTop(stack[t], [f EXCEPT !.pc = "fallthrough"]), NoSig, l)
        ELSE Upd(t, c, Pop(stack[t]), sig[t], l)
  /\ UNCHANGED <<inv, live, lazy>>

\* return results
ParametrizeReturn(t) ==
  /\ InNode(t, "Parametrize", "iter") /\ Top(t).i > Len(Top(t).vals[2])
  /\ Upd(t, cur[t], Pop(stack[t]), Ret(L(Top(t).res)), log[t])
  /\ UNCHANGED <<inv, live, lazy>>

\* return super()._call(call_args), after a swallowed BindError
ParametrizeFallthrough(t) ==
  /\ InNode(t, "Parametrize", "fallthrough")
  /\ LET f == Top(t)
     IN Upd(t, cur[t],
            Append(SetTop(stack[t], [f EXCEPT !.pc = "super"]),
                   NodeFrame(f.chain, f.idx + 1, f.args)),
            NoSig, Append(log[t], Ev("fall", "parametrize", f.idx, 0, f.args, cur[t], None)))
  /\ UNCHANGED <<inv, live, lazy>>

\* -------------------------------------------------------------- Args._call
\* the target run whatever the mode
RunsTargetAlways(c) == TRUE

\* not call().is_pre_func
RunsTarget(c) == ~Truthy(c.is_pre_func)

\* the final bind made with partial=True
TerminalParsePartial(target, m) == ParseArgs(target.sig, <<>>, m, FALSE, TRUE)

\* _parse_args(self.func, kwargs=call_args)
TerminalParse(target, m) == ParseArgs(target.sig, <<>>, m, FALSE, FALSE)

\* Args._call at the end of the chain
Terminal(t) ==
  /\ Running(t, "term")
  /\ LET f == Top(t)
         p == TerminalParse(f.chain.target, f.args)
         o == IF sig[t].kind # "none" THEN sig[t] ELSE PyCall(f.chain.target, p.m, cur[t])
         l0 == IF sig[t].kind # "none" THEN log[t]
               ELSE Append(log[t], Ev("terminal", "target", f.idx, 0, f.args, cur[t], None))
         l == IF sig[t].kind # "none" THEN log[t]
              ELSE Append(l0, Ev("target", "target", f.idx, 0, p.m, cur[t], o))
     IN IF ~RunsTarget(cur[t])
        THEN Upd(t, cur[t], Pop(stack[t]), Ret(None), l0)
        ELSE IF ~p.ok
        THEN Upd(t, cur[t], Pop(stack[t]), Raise(BindError), l0)
        ELSE IF o.kind = "invoke"
        THEN Upd(t, cur[t], Append(stack[t], FnFrame(f.chain.target)), NoSig, l)
        ELSE Upd(t, cur[t], Pop(stack[t]), o, l)
  /\ UNCHANGED <<inv, live, lazy>>

\* ------------------------------------------- user code that calls a chain
\* the decorated callable a user function calls from inside an invocation
NestedChain == Chain(<<Validators(<<Py(<<>>, "none", None)>>)>>, Py(<<>>, "const", I(7)))

FnInvoke(t) ==
  /\ Running(t, "fn") /\ Top(t).pc = "invoke"
  /\ LET r == ArgsCall(cur[t], NestedChain, <<>>, EmptyMap)
     IN Upd(t, r.cur, SetTop(stack[t], [Top(t) EXCEPT !.pc = "after"]) \o r.push, r.sig,
            Append(log[t], Ev("nested", "fn", 0, Len(stack[t]), EmptyMap, cur[t], None)))
  /\ UNCHANGED <<inv, live, lazy>>

\* the user function returns what the chain returned, lets its exception
\* through, or (invoke_catch) catches the AssertionError and returns None
FnReturn(t) ==
  /\ Running(t, "fn") /\ Top(t).pc = "after" /\ sig[t].kind # "none"
  /\ Upd(t, cur[t], Pop(stack[t]),
         IF Top(t).fn.body = "invoke_catch" /\ sig[t] = Raise(AssertionError)
         THEN Ret(None) ELSE sig[t],
         log[t])
  /\ UNCHANGED <<inv, live, lazy>>

\* ------------------------------------------------ the programs that run
\* The decorated functions and the calls made on them: the shapes of the
\* repository's tests (src/arg/tests/test_core.py), one chain per shape.
Lower == S("lower")
Upper == S("upper")
\* v.upper()
UpperOf(v) == CallValue(Getattr(v, S("upper")), Tup(<<>>), Dict(EmptyMap))
UpperChain == LazyDunderCall(LazyGetattribute(<<>>, S("upper")), Tup(<<>>), Dict(EmptyMap))

passes == Py(<<>>, "none", None)
needs(a) == Py(<<P(a)>>, "none", None)
rejects(a, v) == Py(<<P(a)>>, "reject", v)
ident(a) == Py(<<P(a)>>, "id", None)
reenter == Py(<<>>, "invoke", None)
reenter_catch == Py(<<>>, "invoke_catch", None)
cm(id, suppress, res) == <<"cm", id, suppress, res>>
provider(sg, id, suppress, res) == Py(sg, "const", cm(id, suppress, res))
T1 == Py(<<P("arg1")>>, "id", None)
T2 == Py(<<P("arg1"), P("arg2")>>, "args", None)

ChainNames == {"valid", "defval", "defdep", "ctx", "ctxerr", "ctxsup", "param",
               "param2", "paramp", "paramerr", "re_v", "re_d", "re_c", "re_p",
               "re_t", "re_catch", "s_defval", "s_bare"}

ChainOf(name) ==
  CASE name = "valid" ->
         Chain(<<Validators(<<needs("arg2"), rejects("arg1", Upper)>>),
                 Validators(<<passes>>)>>, T2)
    [] name = "defval" ->
         Chain(<<Defaults(<<Named("arg1", Val("arg1", UpperChain))>>),
                 Validators(<<rejects("arg1", UpperOf(Upper))>>)>>, T1)
    [] name = "defdep" ->
         Chain(<<Defaults(<<Named("arg1", ident("arg2")), Named("arg3", ident("arg1"))>>)>>,
               Py(<<P("arg1"), P("arg2"), PD("arg3", None)>>, "args", None))
    [] name = "ctx" ->
         Chain(<<Contexts(<<provider(<<>>, "A", FALSE, None)>>,
                          <<Named("res", provider(<<P("arg1")>>, "B", FALSE, S("resB"))),
                            Named("r2", provider(<<P("res")>>, "C", FALSE, S("resC")))>>),
                 Validators(<<rejects("arg1", Upper)>>)>>,
               Py(<<P("arg1"), P("res")>>, "args", None))
    [] name = "ctxerr" ->
         Chain(<<Contexts(<<provider(<<>>, "A", FALSE, None),
                            provider(<<P("arg1")>>, "B", FALSE, None),
                            Py(<<>>, "raise", ValueError)>>, <<>>)>>, T1)
    [] name = "ctxsup" ->
         Chain(<<Contexts(<<provider(<<>>, "A", FALSE, None),
                            provider(<<>>, "S", TRUE, None)>>, <<>>),
                 Validators(<<rejects("arg1", Upper)>>)>>, T2)
    [] name = "param" ->
         Chain(<<Parametrize("val", Val("vals", <<>>)),
                 Contexts(<<provider(<<>>, "A", FALSE, None)>>, <<>>)>>,
               Py(<<P("val")>>, "report", None))
    [] name = "param2" ->
         Chain(<<Parametrize("a", Val("vals", <<>>)), Parametrize("b", Val("vals", <<>>))>>,
               Py(<<P("b"), P("a")>>, "report", None))
    [] name = "paramp" ->
         Chain(<<Parametrize("val", Val("vals", <<>>))>>,
               Py(<<P("val"), P("arg2")>>, "args", None))
    [] name = "paramerr" ->
         Chain(<<Parametrize("val", Val("vals", <<>>)),
                 Validators(<<rejects("val", I(2))>>)>>, ident("val"))
    [] name = "re_v" -> Chain(<<Validators(<<reenter>>)>>, T1)
    [] name = "re_d" -> Chain(<<Defaults(<<Named("arg1", reenter)>>)>>, T1)
    [] name = "re_c" -> Chain(<<Contexts(<<reenter>>, <<>>)>>, T1)
    [] name = "re_p" -> Chain(<<Parametrize("arg1", reenter)>>, T1)
    [] name = "re_t" -> Chain(<<Validators(<<passes>>)>>, reenter)
    [] name = "re_catch" -> Chain(<<Validators(<<reenter_catch>>)>>, T1)
    [] name = "s_defval" ->
         ArgS(<<Defaults(<<Named("arg1", Val("arg1", UpperChain))>>),
                Validators(<<rejects("arg1", UpperOf(Upper))>>)>>, T1)
    [] name = "s_bare" -> ArgS(<<>>, T1)

\* the lists a caller passes as vals
Ints == {I(n) : n \in 1..MaxVal}
Lists == {L(<<>>)} \cup {L(<<a>>) : a \in Ints} \cup {L(<<a, b>>) : a \in Ints, b \in Ints}

\* the keyword arguments a caller may pass to each chain
PoolOf(name) ==
  CASE name \in {"valid", "ctxsup"} -> [arg1 |-> {Lower, Upper}, arg2 |-> {I(1)}]
    [] name \in {"defval", "s_defval"} -> [arg1 |-> {Lower, Upper}]
    [] name = "defdep" -> [arg1 |-> {Lower}, arg2 |-> {Upper}]
    [] name = "ctx" -> [arg1 |-> {Lower, Upper}, res |-> {S("mine")}]
    [] name = "param" -> [vals |-> Lists, val |-> {I(1)}]
    [] name = "param2" -> [vals |-> Lists]
    [] name = "paramp" -> [vals |-> Lists, arg2 |-> {I(1)}]
    [] name = "paramerr" -> [vals |-> Lists]
    [] OTHER -> [arg1 |-> {Lower}]

Kwargs(pool) ==
  UNION {{m \in [ks -> UNION {pool[k] : k \in ks}] : \A k \in ks : m[k] \in pool[k]} :
         ks \in SUBSET DOMAIN pool}

\* the positional arguments a caller may pass
PosOf(name) ==
  IF name \in {"valid", "defdep"} THEN {<<>>, <<Lower>>, <<Lower, I(1), I(1)>>}
  ELSE IF name = "s_bare" THEN {<<>>, <<Lower>>} ELSE {<<>>}

\* f(...), f.partial(...), f.pre_func(...), f.partial.pre_func(...), ...
Modes == {<<>>, <<"partial">>, <<"pre_func">>, <<"partial", "pre_func">>,
          <<"pre_func", "partial">>}
RECURSIVE Variant(_, _)
Variant(ch, mode) ==
  IF mode = <<>> THEN ch
  ELSE Variant(IF Head(mode) = "partial" THEN Partial(ch) ELSE PreFunc(ch), Tail(mode))

NoInv == [chain |-> "", mode |-> <<>>, pos |-> <<>>, kwargs |-> EmptyMap]

\* a top-level call of a decorated function by thread t
Invoke(t) ==
  /\ t \in live /\ stack[t] = <<>>
  /\ \E n \in ChainNames, md \in Modes :
       \E ps \in PosOf(n), kw \in Kwargs(PoolOf(n)) :
         LET r == ArgsCall(cur[t], Variant(ChainOf(n), md), ps, kw)
         IN /\ Upd(t, r.cur, r.push, r.sig, <<>>)
            /\ inv' = [inv EXCEPT ![t] = [chain |-> n, mode |-> md, pos |-> ps, kwargs |-> kw]]
  /\ UNCHANGED <<live, lazy>>

\* arg.call() called by thread t outside any invocation: what it returns or
\* raises is all the thread is left with
CallOutside(t) ==
  /\ t \in live /\ stack[t] = <<>>
  /\ Upd(t, cur[t], <<>>, CurrentCall(cur[t]), <<>>)
  /\ inv' = [inv EXCEPT ![t] = NoInv]
  /\ UNCHANGED <<live, lazy>>

\* ---------------------------------------------------------- specification
NoLazy == [chain |-> <<>>, ops |-> <<>>, out |-> NoSig, direct |-> NoSig]

Init ==
  /\ cur = [t \in Threads |-> NoCall]
  /\ stack = [t \in Threads |-> <<>>]
  /\ sig = [t \in Threads |-> NoSig]
  /\ log = [t \in Threads |-> <<>>]
  /\ inv = [t \in Threads |-> NoInv]
  /\ live = {1}
  /\ lazy = NoLazy

Next ==
  \E t \in Threads :
    \/ Invoke(t)
    \/ CallBind(t)
    \/ CallFinally(t)
    \/ ValidatorsLoop(t)
    \/ ValidatorsSuper(t)
    \/ NodeReturn(t)
    \/ DefaultsLoop(t)
    \/ DefaultsSuper(t)
    \/ ContextsLoop(t)
    \/ ContextsSuper(t)
    \/ ContextsLeave(t)
    \/ ContextsExit(t)
    \/ ContextsReturn(t)
    \/ ParametrizeLoad(t)
    \/ ParametrizeIter(t)
    \/ ParametrizeCollect(t)
    \/ ParametrizeExcept(t)
    \/ ParametrizeReturn(t)
    \/ ParametrizeFallthrough(t)
    \/ Terminal(t)
    \/ FnInvoke(t)
    \/ FnReturn(t)
    \/ CallOutside(t)

Spec == Init /\ [][Next]_vars

\* ------------------------------------------------- two threads at once
\* the invocations each of the two threads may make, one after another
Calls ==
  {[chain |-> "defval", mode |-> <<>>, pos |-> <<>>, kwargs |-> [arg1 |-> Lower]],
   [chain |-> "ctx", mode |-> <<"pre_func">>, pos |-> <<>>, kwargs |-> [arg1 |-> Lower]],
   [chain |-> "paramp", mode |-> <<"partial">>, pos |-> <<>>, kwargs |-> [vals |-> L(<<I(1)>>)]],
   [chain |-> "param", mode |-> <<>>, pos |-> <<>>, kwargs |-> [vals |-> L(<<I(MaxVal)>>)]],
   [chain |-> "re_v", mode |-> <<>>, pos |-> <<>>, kwargs |-> [arg1 |-> Lower]]}

\* a top-level call of a decorated function by one of the two threads
InvokeConcurrent(t) ==
  /\ t \in live /\ stack[t] = <<>>
  /\ \E call \in Calls :
       LET r == ArgsCall(cur[t], Variant(ChainOf(call.chain), call.mode), call.pos, call.kwargs)
       IN /\ Upd(t, r.cur, r.push, r.sig, <<>>)
          /\ inv' = [inv EXCEPT ![t] = call]
  /\ UNCHANGED <<live, lazy>>

InitThreads ==
  /\ cur = [t \in Threads |-> NoCall]
  /\ stack = [t \in Threads |-> <<>>]
  /\ sig = [t \in Threads |-> NoSig]
  /\ log = [t \in Threads |-> <<>>]
  /\ inv = [t \in Threads |-> NoInv]
  /\ live = Threads
  /\ lazy = NoLazy

NextThreads ==
  \E t \in Threads :
    \/ InvokeConcurrent(t)
    \/ CallBind(t)
    \/ CallFinally(t)
    \/ ValidatorsLoop(t)
    \/ ValidatorsSuper(t)
    \/ NodeReturn(t)
    \/ DefaultsLoop(t)
    \/ DefaultsSuper(t)
    \/ ContextsLoop(t)
    \/ ContextsSuper(t)
    \/ ContextsLeave(t)
    \/ ContextsExit(t)
    \/ ContextsReturn(t)
    \/ ParametrizeLoad(t)
    \/ ParametrizeIter(t)
    \/ ParametrizeCollect(t)
    \/ ParametrizeExcept(t)
    \/ ParametrizeReturn(t)
    \/ ParametrizeFallthrough(t)
    \/ Terminal(t)
    \/ FnInvoke(t)
    \/ FnReturn(t)

SpecThreads == InitThreads /\ [][NextThreads]_vars

\* ------------------------------------------- the Lazy value and its chain
\* What the same accesses and invocations give when made on the value itself
RECURSIVE Direct(_, _)
Direct(v, ops) ==
  IF ops = <<>> THEN v
  ELSE Direct(IF Head(ops)[1] = "attr" THEN Getattr(v, Head(ops)[2])
              ELSE CallValue(v, Head(ops)[2], Head(ops)[3]),
              Tail(ops))

AttrNames == {"upper", "lower"}
CallArgs == {Tup(<<>>), Tup(<<I(1)>>)}
Bases == {S("Aa")}

\* lazy.<name>
LazyAccess ==
  /\ Len(lazy.ops) < MaxLazyOps
  /\ \E n \in AttrNames :
       lazy' = [lazy EXCEPT !.chain = LazyGetattribute(@, S(n)),
                            !.ops = Append(@, <<"attr", S(n)>>),
                            !.out = NoSig, !.direct = NoSig]
  /\ UNCHANGED <<cur, stack, sig, log, inv, live>>

\* lazy(*args)
LazyInvoke ==
  /\ Len(lazy.ops) < MaxLazyOps
  /\ \E a \in CallArgs :
       lazy' = [lazy EXCEPT !.chain = LazyDunderCall(@, a, Dict(EmptyMap)),
                            !.ops = Append(@, <<"call", a, Dict(EmptyMap)>>),
                            !.out = NoSig, !.direct = NoSig]
  /\ UNCHANGED <<cur, stack, sig, log, inv, live>>

\* arg.load(arg.val('value')<operations>, value=base)
LazyLoadValue ==
  /\ lazy.out = NoSig
  /\ \E b \in Bases :
       lazy' = [lazy EXCEPT !.out = LazyLoad(Val("value", lazy.chain), "value" :> b, NoCall),
                            !.direct = Ret(Direct(b, lazy.ops))]
  /\ UNCHANGED <<cur, stack, sig, log, inv, live>>

\* another Lazy value is built
LazyNew ==
  /\ lazy # NoLazy
  /\ lazy' = NoLazy
  /\ UNCHANGED <<cur, stack, sig, log, inv, live>>

InitLazy ==
  /\ cur = [t \in Threads |-> NoCall]
  /\ stack = [t \in Threads |-> <<>>]
  /\ sig = [t \in Threads |-> NoSig]
  /\ log = [t \in Threads |-> <<>>]
  /\ inv = [t \in Threads |-> NoInv]
  /\ live = {}
  /\ lazy = NoLazy

NextLazy == LazyAccess \/ LazyInvoke \/ LazyLoadValue \/ LazyNew

SpecLazy == InitLazy /\ [][NextLazy]_vars

\* ------------------------------------------- Lazy values loaded directly
\* arg.load(x, **m) for the Lazy values x that val, func, first and init
\* build, one inside another up to MaxNest deep, and the mappings m.
MaxNest == 2

NoLoad == [built |-> FALSE, x |-> None, nest |-> 0, m |-> EmptyMap, out |-> NoSig,
           wrapped |-> NoSig, tried |-> 0]

LoadNames == {"a", "b"}
LoadDefault == S("D")
\* the mappings: each name, when present, has its own value
LoadValue(k) == S("v_" \o k)
LoadMaps == {[k \in ks |-> LoadValue(k)] : ks \in SUBSET (LoadNames \cup {"args"})}
\* the plain callables given to func and first
LoadFns == {Py(<<P("a")>>, "const", S("r1")), Py(<<P("b")>>, "const", S("r2")),
            Py(<<P("a")>>, "raise", BindError), Py(<<P("a")>>, "raise", ValueError)}
\* the candidates given to first
LoadCands == {Val(n, <<>>) : n \in LoadNames} \cup {ValDefault("a", S("DA"), <<>>)} \cup LoadFns
LoadCandLists == {<<>>} \cup {<<c1>> : c1 \in LoadCands}
                 \cup {<<c1, c2>> : c1 \in LoadCands, c2 \in LoadCands}

\* x = arg.val(n) or arg.val(n, default)
LoadNewVal ==
  /\ ~lazy.built
  /\ \E n \in LoadNames, hd \in BOOLEAN :
       lazy' = [lazy EXCEPT !.built = TRUE,
                            !.x = IF hd THEN ValDefault(n, LoadDefault, <<>>) ELSE Val(n, <<>>)]
  /\ UNCHANGED <<cur, stack, sig, log, inv, live>>

\* x = arg.func(fn) or arg.func(fn, default)
LoadNewFunc ==
  /\ ~lazy.built
  /\ \E fn \in LoadFns, hd \in BOOLEAN :
       lazy' = [lazy EXCEPT !.built = TRUE,
                            !.x = Func(fn, hd, IF hd THEN LoadDefault ELSE None, <<>>)]
  /\ UNCHANGED <<cur, stack, sig, log, inv, live>>

\* x = arg.first(c1, ..., cn) or arg.first(c1, ..., cn, default=...)
LoadNewFirst ==
  /\ ~lazy.built
  /\ \E cs \in LoadCandLists, hd \in BOOLEAN :
       lazy' = [lazy EXCEPT !.built = TRUE,
                            !.x = First(cs, hd, IF hd THEN LoadDefault ELSE None)]
  /\ UNCHANGED <<cur, stack, sig, log, inv, live>>

\* x = arg.init(K, 'c') or, a Lazy value built, arg.init(K, 'c', x)
LoadNewInit ==
  /\ lazy.out = NoSig /\ lazy.nest < MaxNest
  /\ lazy' = [lazy EXCEPT !.built = TRUE, !.nest = @ + 1,
                          !.x = InitOf(S("K"), IF lazy.built
                                               THEN <<Arg(S("c")), LazyArg(lazy.x)>>
                                               ELSE <<Arg(S("c"))>>)]
  /\ UNCHANGED <<cur, stack, sig, log, inv, live>>

\* x = arg.func(x)
LoadWrap ==
  /\ lazy.built /\ lazy.out = NoSig /\ lazy.nest < MaxNest
  /\ lazy' = [lazy EXCEPT !.nest = @ + 1, !.x = Func(lazy.x, FALSE, None, <<>>)]
  /\ UNCHANGED <<cur, stack, sig, log, inv, live>>

\* x = x.upper()
LoadChain ==
  /\ lazy.built /\ lazy.out = NoSig /\ lazy.x.chain = <<>>
  /\ lazy' = [lazy EXCEPT !.x.chain =
                LazyDunderCall(LazyGetattribute(@, S("upper")), Tup(<<>>), Dict(EmptyMap))]
  /\ UNCHANGED <<cur, stack, sig, log, inv, live>>

\* arg.load(x, **m), and arg.load(arg.func(x), **m) beside it
LoadApply ==
  /\ lazy.built /\ lazy.out = NoSig
  /\ \E m \in LoadMaps :
       lazy' = [lazy EXCEPT !.m = m,
                            !.out = Load(lazy.x, m, NoCall),
                            !.wrapped = Load(Func(lazy.x, FALSE, None, <<>>), m, NoCall),
                            !.tried = IF lazy.x.kind = "first"
                                      THEN FirstLoop(lazy.x, 1, m, NoCall).n ELSE 0]
  /\ UNCHANGED <<cur, stack, sig, log, inv, live>>

LoadReset ==
  /\ lazy.built
  /\ lazy' = NoLoad
  /\ UNCHANGED <<cur, stack, sig, log, inv, live>>

InitLoad ==
  /\ cur = [t \in Threads |-> NoCall]
  /\ stack = [t \in Threads |-> <<>>]
  /\ sig = [t \in Threads |-> NoSig]
  /\ log = [t \in Threads |-> <<>>]
  /\ inv = [t \in Threads |-> NoInv]
  /\ live = {}
  /\ lazy = NoLoad

NextLoad ==
  \/ LoadNewVal \/ LoadNewFunc \/ LoadNewFirst \/ LoadNewInit
  \/ LoadWrap \/ LoadChain \/ LoadApply \/ LoadReset

SpecLoad == InitLoad /\ [][NextLoad]_vars

\* -------------------------------------------------- the binder by itself
\* The variable lazy holds one call of _parse_args: the signature, what the
\* caller passed, the two flags, and, once the call is made, its result and
\* the result of the top-level bind of the same arguments.
BindSigs == {<<>>, <<P("a")>>, <<P("a"), P("b")>>, <<P("a"), PD("b", S("db"))>>,
             <<PD("a", S("da")), PD("b", S("db"))>>}
BindPos == {<<>>, <<S("p1")>>, <<S("p1"), S("p2")>>, <<S("p1"), S("p2"), S("p3")>>}
BindKwargs == {[k \in ks |-> S("k_" \o k)] : ks \in SUBSET {"a", "b", "x"}}
BindCalls ==
  {[sig |-> sg, args |-> a, kwargs |-> kw, extra |-> ex, partial |-> pa, done |-> FALSE,
    out |-> [ok |-> FALSE, m |-> EmptyMap], entry |-> [ok |-> FALSE, m |-> EmptyMap]] :
     sg \in BindSigs, a \in BindPos, kw \in BindKwargs, ex \in BOOLEAN, pa \in BOOLEAN}

\* _parse_args(func, args, kwargs, extra, partial) and the bind Args.__call__
\* makes of the same arguments
BindApply ==
  /\ ~lazy.done
  /\ lazy' = [lazy EXCEPT !.done = TRUE,
                          !.out = ParseArgs(lazy.sig, lazy.args, lazy.kwargs,
                                            lazy.extra, lazy.partial),
                          !.entry = EntryParse(Py(lazy.sig, "none", None),
                                               lazy.args, lazy.kwargs)]
  /\ UNCHANGED <<cur, stack, sig, log, inv, live>>

\* the next call of the binder
BindNew ==
  /\ lazy.done
  /\ lazy' \in BindCalls
  /\ UNCHANGED <<cur, stack, sig, log, inv, live>>

InitBind ==
  /\ cur = [t \in Threads |-> NoCall]
  /\ stack = [t \in Threads |-> <<>>]
  /\ sig = [t \in Threads |-> NoSig]
  /\ log = [t \in Threads |-> <<>>]
  /\ inv = [t \in Threads |-> NoInv]
  /\ live = {}
  /\ lazy \in BindCalls

NextBind == BindApply \/ BindNew

SpecBind == InitBind /\ [][NextBind]_vars

\* =============================================================== properties
Idle(t) == stack[t] = <<>>
\* thread t made a top-level invocation and it is over
Finished(t) == Idle(t) /\ inv[t].chain # ""
TargetOf(t) == ChainOf(inv[t].chain).target
Events(t, ev) == {j \in 1..Len(log[t]) : log[t][j].ev = ev}
\* a user's context manager swallowed an exception during the invocation
Swallowed(t) == \E j \in Events(t, "exit") : log[t][j].v = B(TRUE)
\* the invocation went through pre_func
PreOnly(t) == \E k \in 1..Len(inv[t].mode) : inv[t].mode[k] = "pre_func"

MissingAtTerminal(t, j) ==
  /\ log[t][j].ev = "terminal"
  /\ ~Truthy(log[t][j].c.is_pre_func)
  /\ ~(SigRequired(TargetOf(t).sig) \subseteq DOMAIN log[t][j].m)

DepFn(f) == IF NodeOf(f).kind = "Validators" THEN NodeOf(f).fns[f.i] ELSE NodeOf(f).fns[f.i].fn
DepArgs(f) == IF NodeOf(f).kind = "Validators" THEN f.args ELSE Merge(f.args, f.acc)
\* thread t is about to evaluate a function that lacks a required argument
MissingDep(t) ==
  /\ Running(t, "node") /\ Top(t).pc = "loop" /\ sig[t].kind = "none"
  /\ NodeOf(Top(t)).kind \in {"Validators", "Defaults", "Contexts"}
  /\ Top(t).i <= Len(NodeOf(Top(t)).fns)
  /\ ~IsLazy(DepFn(Top(t)))
  /\ ~(SigRequired(DepFn(Top(t)).sig) \subseteq DOMAIN DepArgs(Top(t)))

C3_Step ==
  \A t \in Threads :
    MissingDep(t) /\ stack'[t] # stack[t] =>
      IF Truthy(cur[t].is_partial)
      THEN /\ stack'[t] = SetTop(stack[t], [Top(t) EXCEPT !.i = @ + 1])
           /\ sig'[t] = NoSig
           /\ cur'[t] = cur[t]
      ELSE IF NodeOf(Top(t)).kind = "Contexts"
      THEN /\ stack'[t] = SetTop(stack[t], [Top(t) EXCEPT !.pc = "unwind",
                                                           !.out = Raise(BindError)])
      ELSE /\ stack'[t] = Pop(stack[t])
           /\ sig'[t] = Raise(BindError)

Misnested == <<0>>
RECURSIVE Nest(_, _, _)
Nest(l, j, st) ==
  IF j > Len(l) \/ st = Misnested THEN st
  ELSE LET e == l[j]
           top == IF st = <<>> THEN 0 ELSE st[Len(st)]
       IN CASE e.ev = "enter" -> Nest(l, j + 1, Append(st, e.i))
            [] e.ev = "inner" -> Nest(l, j + 1, Append(st, 0 - e.idx))
            [] e.ev = "exit" ->
                 IF top = e.i THEN Nest(l, j + 1, Pop(st)) ELSE Misnested
            [] e.ev = "inner_done" ->
                 IF top = 0 - e.idx THEN Nest(l, j + 1, Pop(st)) ELSE Misnested
            [] OTHER -> Nest(l, j + 1, st)

\* C5: every resource a Contexts node entered is released exactly once, in
\* the reverse of the order of entry, on every exit path of the node (inner
\* chain returned, inner chain raised, a later provider raised), and none
\* is released before the inner chain has finished.
C5_ResourcesReleasedInReverse ==
  \A t \in Threads :
    /\ Nest(log[t], 1, <<>>) # Misnested
    /\ Idle(t) => Nest(log[t], 1, <<>>) = <<>>
    /\ \A j \in Events(t, "enter"), k \in Events(t, "enter") :
         log[t][j].i = log[t][k].i => j = k
    /\ \A j \in Events(t, "exit"), k \in Events(t, "exit") :
         log[t][j].i = log[t][k].i => j = k
    /\ \A j \in 1..Len(stack[t]) :
         stack[t][j].k = "node" /\ stack[t][j].pc = "super"
         /\ NodeOf(stack[t][j]).kind = "Contexts"
         => \A x \in 1..Len(stack[t][j].es) :
              \E k \in Events(t, "enter") :
                /\ log[t][k].i = stack[t][j].es[x].rid
                /\ \A q \in Events(t, "exit") : log[t][q].i # log[t][k].i

\* a provider raised after two resources were entered: both were released
C5_Witness ==
  /\ Finished(1) /\ inv[1].chain = "ctxerr" /\ inv[1].mode = <<>>
  /\ Cardinality(Events(1, "enter")) = 2
  /\ Cardinality(Events(1, "exit")) = 2
  /\ sig[1] = Raise(ValueError)

\* C6: when the block of Call.set is left, normally or with an exception,
\* every overridden field has the value it had before the block, the
\* overrides being undone in the reverse of the order they were applied.
C6_SetRestoresOnEveryExit ==
  \A t \in Threads :
    \A j \in 1..Len(log[t]) :
      \/ log[t][j].ev = "unset"
      \/ log[t][j].ev = "exit" /\ log[t][j].role = "setcm"
      => \A k \in DOMAIN log[t][j].m : log[t][j].c[k] = log[t][j].m[k]

\* C7: a top-level invocation made while the thread already has a Call
\* Context fails at once with AssertionError: no invocation is started
\* inside another, and when the attempt returns to the user code that made
\* it nothing has run and the context is as it was.
C7_NestedInvocationRejected ==
  \A t \in Threads :
    /\ \A j \in 2..Len(stack[t]) : stack[t][j].k # "call"
    /\ Running(t, "fn") /\ Top(t).pc = "after" =>
         /\ sig[t] = Raise(AssertionError)
         /\ log[t] # <<>>
         /\ log[t][Len(log[t])].ev = "nested"
         /\ log[t][Len(log[t])].c = cur[t]
         /\ cur[t].has

\* the target of a chain has just tried to call a decorated function
C7_Witness ==
  /\ Running(1, "fn") /\ Top(1).pc = "after"
  /\ inv[1].chain = "re_t"
  /\ Events(1, "target") # {}

\* the chain thread t invoked, partial and pre_func wrappers included
InvokedChain(t) == Variant(ChainOf(inv[t].chain), inv[t].mode)
\* what a target reporting its argument and the parametrization fields of
\* the context returns for each value of seq, the node parametrizing name
Reports(seq, name) ==
  L([i \in 1..Len(seq) |-> Tup(<<seq[i], S(name), seq[i], I(i - 1), L(seq)>>)])
\* the last entry into or exit from a Parametrize scope before event k
LastScope(t, k) ==
  LET before == {j \in 1..(k - 1) : log[t][j].ev \in {"set", "unset"}}
  IN IF before = {} THEN 0 ELSE CHOOSE j \in before : \A q \in before : q <= j

\* C8: Parametrize loads the sequence, runs the inner chain once per value
\* in sequence order and returns the list of the results in that order;
\* during the run for a value the context reports the parametrized argument
\* name, that value, its zero-based index and the whole sequence.
C8_ParametrizeOrderedResults ==
  \A t \in Threads :
    /\ Finished(t) /\ inv[t].mode \in {<<>>, <<"partial">>}
       /\ "vals" \in DOMAIN inv[t].kwargs =>
         /\ inv[t].chain = "param" => sig[t] = Ret(Reports(inv[t].kwargs.vals[2], "val"))
         /\ inv[t].chain = "param2" =>
              sig[t] = Ret(L([i \in 1..Len(inv[t].kwargs.vals[2]) |->
                                Reports(inv[t].kwargs.vals[2], "b")]))
    /\ \A k \in 1..Len(log[t]) :
         LET j == LastScope(t, k)
         IN j > 0 /\ log[t][k].ev \in {"load", "terminal", "target", "enter", "inner"} =>
              IF log[t][j].ev = "set"
              THEN LET seq == log[t][j].v[2]
                       i == log[t][j].i
                   IN /\ log[t][k].c.parametrize_arg = S(InvokedChain(t).nodes[log[t][j].idx].arg)
                      /\ log[t][k].c.parametrize_arg_val = seq[i]
                      /\ log[t][k].c.parametrize_arg_index = I(i - 1)
                      /\ log[t][k].c.parametrize_arg_vals = L(seq)
                      /\ log[t][k].ev # "enter" =>
                           log[t][k].m[InvokedChain(t).nodes[log[t][j].idx].arg] = seq[i]
              ELSE log[t][j].v.kind = "ret" =>
                     \A f \in DOMAIN log[t][j].m : log[t][k].c[f] = log[t][j].m[f]
    /\ \A j \in Events(t, "set") :
         /\ log[t][j].i \in 1..Len(log[t][j].v[2])
         /\ \A q \in Events(t, "set") :
              q < j /\ log[t][q].idx = log[t][j].idx
              /\ (\A r \in Events(t, "set") : q < r /\ r < j => log[t][r].idx > log[t][j].idx)
              => log[t][j].i = log[t][q].i + 1 \/ log[t][j].i = 1

\* a parametrization over two different values returned its two results
C8_Witness ==
  /\ Finished(1) /\ inv[1].chain = "param" /\ inv[1].mode = <<>>
  /\ "vals" \in DOMAIN inv[1].kwargs
  /\ inv[1].kwargs.vals = L(<<I(2), I(1)>>)
  /\ Cardinality(Events(1, "target")) = 2
  /\ sig[1].kind = "ret"

\* the mapping a node hands to the next node of the chain
Passed(f) ==
  CASE NodeOf(f).kind = "Validators" -> f.args
    [] NodeOf(f).kind \in {"Defaults", "Contexts"} ->
         [k \in DOMAIN f.args \cup DOMAIN f.acc |->
            IF k \in DOMAIN f.acc THEN f.acc[k] ELSE f.args[k]]
    [] NodeOf(f).kind = "Parametrize" /\ f.pc = "body" ->
         [k \in DOMAIN f.args \cup {NodeOf(f).arg} |->
            IF k = NodeOf(f).arg THEN f.vals[2][f.i] ELSE f.args[k]]
    [] OTHER -> f.args

\* C9: the nodes of a chain run outermost first, each one handing the
\* mapping it accumulated to the next, the target coming last; so a default
\* declared outside a validator is computed before the validator runs and
\* the validator sees it.
C9_OutermostFirst ==
  \A t \in Threads :
    /\ \A j \in 2..Len(stack[t]) :
         stack[t][j].k \in {"node", "term"} =>
           /\ stack[t][j - 1].k \in {"call", "node"}
           /\ stack[t][j].idx = stack[t][j - 1].idx + 1
           /\ stack[t][j].chain = stack[t][j - 1].chain
           /\ (stack[t][j].k = "term") = (stack[t][j].idx > Len(stack[t][j].chain.nodes))
           /\ stack[t][j - 1].k = "node" => stack[t][j].args = Passed(stack[t][j - 1])
    /\ \A j \in 1..Len(log[t]), k \in 1..Len(log[t]) :
         /\ j < k /\ log[t][j].ev = "terminal"
         /\ log[t][k].ev \in {"load", "enter"}
         => \E q \in Events(t, "set") : j < q /\ q < k
    /\ inv[t].chain = "defval" /\ inv[t].mode = <<>> /\ "arg1" \in DOMAIN inv[t].kwargs =>
         /\ \A j \in Events(t, "load") :
              log[t][j].role = "validator" =>
                /\ log[t][j].m["arg1"] = UpperOf(inv[t].kwargs["arg1"])
                /\ \E k \in Events(t, "load") : k < j /\ log[t][k].role = "default"
         /\ \A j \in Events(t, "target") : log[t][j].m["arg1"] = UpperOf(inv[t].kwargs["arg1"])
         /\ Idle(t) =>
              sig[t] = IF inv[t].kwargs["arg1"] = Upper THEN Raise(ValueError)
                       ELSE Ret(UpperOf(Lower))

\* the validator rejected the value the default declared outside it computed
C9_Witness ==
  /\ Finished(1) /\ inv[1].chain = "defval" /\ inv[1].mode = <<>>
  /\ "arg1" \in DOMAIN inv[1].kwargs
  /\ \E j \in Events(1, "load") : log[1][j].role = "validator"
  /\ sig[1] = Raise(ValueError)

\* C10: loading a Lazy value on which attribute accesses and invocations
\* were made gives what the same operations give when made directly on the
\* loaded value, invocations with arguments and invocations in a row
\* included.
C10_LazyEqualsDirect ==
  lazy.out.kind # "none" => lazy.out = lazy.direct

\* C11: loading func(L), L a Lazy value of any variant, against a mapping
\* gives what loading L against that mapping gives, whenever that succeeds.
C11_FuncOfLazyLoadsLazy ==
  lazy.out.kind = "ret" => lazy.wrapped = lazy.out

\* x is a Value Reference: val(name) or val(name, default), nothing chained
IsVal(x) == x.kind = "func" /\ x.wraps.kind = "py" /\ x.wraps.body = "id" /\ x.chain = <<>>
\* the first candidate of the First-Available x that loads without BindError
\* against m (0: none does)
FirstLoadable(x, m) ==
  LET ok == {i \in 1..Len(x.vals) : Load(x.vals[i], m, NoCall) # Raise(BindError)}
  IN IF ok = {} THEN 0 ELSE CHOOSE i \in ok : \A j \in ok : i <= j

\* C12: loading First-Available(c1..cn, default=D) gives the outcome of the
\* first candidate that loads without BindError (its result, or the other
\* error it raised) and loads no candidate after it; when every candidate
\* raises BindError it gives D if a default was supplied and BindError
\* otherwise.
C12_FirstAvailable ==
  lazy.out.kind # "none" /\ lazy.x.kind = "first" =>
    LET k == FirstLoadable(lazy.x, lazy.m)
        o == Load(lazy.x.vals[k], lazy.m, NoCall)
    IN IF k > 0
       THEN /\ lazy.tried = k
            /\ lazy.out = IF o.kind = "ret" THEN Ret(Replay(o.val, lazy.x.chain)) ELSE o
       ELSE /\ lazy.tried = Len(lazy.x.vals)
            /\ lazy.out = IF lazy.x.hasdef
                          THEN Ret(Replay(lazy.x.default, lazy.x.chain))
                          ELSE Raise(BindError)

\* first(val('a'), val('b')) loaded with both present: a's value, b not tried
C12_Witness ==
  /\ lazy.out.kind = "ret" /\ lazy.x.kind = "first"
  /\ Len(lazy.x.vals) = 2 /\ lazy.tried = 1
  /\ FirstLoadable([lazy.x EXCEPT !.vals = Tail(@)], lazy.m) = 1

\* C13: loading Value Reference(name, default=D) returns the mapping's value
\* for name when name is present, D when name is absent and a default was
\* supplied, and raises BindError when name is absent and there is no
\* default; nothing else of the mapping counts.
C13_ValueReference ==
  lazy.out.kind # "none" /\ IsVal(lazy.x) =>
    LET name == lazy.x.wraps.sig[1].name
    IN lazy.out = IF name \in DOMAIN lazy.m THEN Ret(lazy.m[name])
                  ELSE IF lazy.x.hasdef THEN Ret(lazy.x.default)
                  ELSE Raise(BindError)

\* val(name, default) loaded against a mapping with name and other entries
C13_Witness ==
  /\ lazy.out.kind = "ret" /\ IsVal(lazy.x) /\ lazy.x.hasdef
  /\ lazy.x.wraps.sig[1].name \in DOMAIN lazy.m
  /\ DOMAIN lazy.m # {lazy.x.wraps.sig[1].name}

\* what each of the invocations of Calls gives when it runs alone
AloneOutcome(call) ==
  CASE call.chain = "defval" -> Ret(UpperOf(Lower))
    [] call.chain = "ctx" -> Ret(None)
    [] call.chain = "paramp" -> Raise(BindError)
    [] call.chain = "param" -> Ret(Reports(call.kwargs.vals[2], "val"))
    [] call.chain = "re_v" -> Raise(AssertionError)
\* the context c is one the invocation of thread t made: its flags are
\* those of the mode of that invocation, its parametrization fields those
\* of the Parametrize node and of the values of that invocation
OwnContext(t, c) ==
  /\ c.has
  /\ Truthy(c.is_partial) => inv[t].mode = <<"partial">>
  /\ Truthy(c.is_pre_func) => inv[t].mode = <<"pre_func">>
  /\ c.parametrize_arg # None =>
       /\ inv[t].chain \in {"param", "paramp"}
       /\ c.parametrize_arg = S("val")
       /\ c.parametrize_arg_vals = inv[t].kwargs.vals
       /\ c.parametrize_arg_val = inv[t].kwargs.vals[2][1]

\* a step of one thread leaves the context of every other thread as it was
C14_Step ==
  \A t \in Threads, u \in Threads :
    u # t /\ <<stack[t], sig[t], log[t]>>' # <<stack[t], sig[t], log[t]>> => cur'[u] = cur[u]

\* C14: two threads that run top-level invocations at the same time do not
\* interfere: a thread has a Call Context exactly while its own invocation
\* runs (the other's entry or exit neither creates, replaces nor clears it),
\* every context its functions observe is the one of its own invocation,
\* with that invocation's flags and parametrization fields, and each
\* invocation ends as it does when it runs alone, so never with the
\* reentrancy error on account of the other thread.
C14_ThreadsDoNotInterfere ==
  /\ [][C14_Step]_vars
  /\ [](\A t \in Threads :
          /\ cur[t].has = (stack[t] # <<>>)
          /\ cur[t].has => OwnContext(t, cur[t])
          /\ \A j \in 1..Len(log[t]) : OwnContext(t, log[t][j].c)
          /\ Finished(t) => sig[t] = AloneOutcome(inv[t]))

\* thread 1 has finished a partial invocation that parametrized while thread
\* 2 is still inside a pre_func invocation, its own context in place
C14_Witness ==
  /\ Finished(1) /\ inv[1].chain = "paramp" /\ Events(1, "set") # {}
  /\ stack[2] # <<>> /\ inv[2].chain = "ctx"
  /\ cur[2].has /\ Truthy(cur[2].is_pre_func) /\ ~Truthy(cur[2].is_partial)
  /\ Events(2, "enter") # {}

\* the errors other than BindError that the user's functions raised during
\* the invocation of thread t: by a function a node evaluated, by the
\* target, or by the rejected call of a decorated function that a user's
\* function made and did not catch
RaisedOther(t) ==
  {log[t][j].v : j \in {k \in Events(t, "load") \cup Events(t, "target") :
                          log[t][k].v.kind = "exc" /\ log[t][k].v.val # BindError}}
  \cup (IF Events(t, "nested") # {} /\ inv[t].chain # "re_catch"
        THEN {Raise(AssertionError)} ELSE {})

Decorators == {Validators(<<passes>>), Defaults(<<Named("arg1", ident("arg2"))>>),
               Parametrize("val", Val("vals", <<>>))}
DecoratorLists ==
  {<<>>} \cup {<<d1>> : d1 \in Decorators} \cup {<<d1, d2>> : d1 \in Decorators, d2 \in Decorators}
  \cup {<<d1, d2, d3>> : d1 \in Decorators, d2 \in Decorators, d3 \in Decorators}

\* C18: arg.s(d1, ..., dn)(f) is the chain that stacking @d1 ... @dn on f
\* builds, d1 outermost, so its invocation runs that chain and ends as the
\* stacked function's does; arg.s()(f) is a chain with no nodes, whose
\* invocation binds the caller's arguments and returns what f returns.
C18_ArgSEqualsStacking ==
  /\ \A ds \in DecoratorLists :
       /\ ArgS(ds, T1) = IF ds = <<>> THEN Chain(<<>>, T1) ELSE Stacked(ds, T1)
       /\ ds # <<>> => /\ ArgS(ds, T1).nodes = ds
                       /\ ArgS(<<Head(ds)>>, Stacked(Tail(ds), T1)) = Stacked(ds, T1)
  /\ \A t \in Threads :
       /\ inv[t].chain = "s_defval" =>
            /\ stack[t] # <<>> => stack[t][1].chain = Variant(ChainOf("defval"), inv[t].mode)
            /\ Idle(t) /\ inv[t].mode = <<>> /\ "arg1" \in DOMAIN inv[t].kwargs =>
                 sig[t] = IF inv[t].kwargs["arg1"] = Upper THEN Raise(ValueError)
                          ELSE Ret(UpperOf(Lower))
       /\ inv[t].chain = "s_bare" /\ inv[t].mode = <<>> =>
            /\ Events(t, "load") = {}
            /\ Idle(t) =>
                 sig[t] = IF (inv[t].pos = <<>>) # (DOMAIN inv[t].kwargs = {})
                          THEN Ret(Lower) ELSE Raise(BindError)

\* the chain arg.s built from a default and a validator rejected the value
\* the default computed
C18_Witness ==
  /\ Finished(1) /\ inv[1].chain = "s_defval" /\ inv[1].mode = <<>>
  /\ \E j \in Events(1, "load") : log[1][j].role = "validator"
  /\ sig[1] = Raise(ValueError)

\* event j of thread t: the parametrization function of a Parametrize node
\* raised BindError
ParamBindError(t, j) ==
  /\ log[t][j].ev = "load" /\ log[t][j].role = "parametrize"
  /\ log[t][j].v = Raise(BindError)
\* the events of thread t after event j by which something runs: a function
\* loaded, a resource entered, a parametrized run, the end of the chain
RunsAfter(t, j) ==
  {k \in (j + 1)..Len(log[t]) :
     log[t][k].ev \in {"load", "enter", "inner", "set", "fall", "terminal", "target"}}

\* C19: when the parametrization function raises BindError in partial mode
\* the node delegates inward once: the next step hands the unchanged mapping
\* to the inner chain, under the unchanged context, no parametrized run
\* follows, and the invocation returns the inner result itself, not a list;
\* outside partial mode the BindError ends the invocation and nothing of
\* the inner chain runs.
C19_ParametrizeSkippedOnBindError ==
  \A t \in Threads :
    /\ \A j \in 1..Len(log[t]) :
         ParamBindError(t, j) =>
           IF Truthy(log[t][j].c.is_partial)
           THEN /\ j < Len(log[t]) =>
                     /\ log[t][j + 1].ev = "fall" /\ log[t][j + 1].idx = log[t][j].idx
                     /\ log[t][j + 1].m = log[t][j].m /\ log[t][j + 1].c = log[t][j].c
                /\ \A k \in (j + 1)..Len(log[t]) :
                     log[t][k].idx = log[t][j].idx =>
                       /\ log[t][k].ev # "set"
                       /\ log[t][k].ev = "fall" => k = j + 1
                /\ j = Len(log[t]) => stack[t] # <<>> /\ Top(t).pc = "fallthrough"
           ELSE /\ RunsAfter(t, j) = {}
                /\ Idle(t) => sig[t] = Raise(BindError)
    /\ Finished(t) /\ inv[t].chain = "param" /\ inv[t].pos = <<>>
         /\ "vals" \notin DOMAIN inv[t].kwargs =>
            sig[t] = IF PreOnly(t) /\ inv[t].mode # <<"pre_func">> THEN Ret(None)
                     ELSE IF inv[t].mode = <<"partial">> /\ "val" \in DOMAIN inv[t].kwargs
                     THEN Ret(Tup(<<inv[t].kwargs.val, None, None, None, None>>))
                     ELSE Raise(BindError)

\* a partial invocation without the sequence of values: the node skipped the
\* parametrization and the target ran once, with the argument the caller gave
C19_Witness ==
  /\ Finished(1) /\ inv[1].chain = "param" /\ inv[1].mode = <<"partial">>
  /\ DOMAIN inv[1].kwargs = {"val"}
  /\ \E j \in 1..Len(log[1]) : ParamBindError(1, j)
  /\ Cardinality(Events(1, "fall")) = 1 /\ Events(1, "set") = {}
  /\ Cardinality(Events(1, "target")) = 1
  /\ sig[1] = Ret(Tup(<<I(1), None, None, None, None>>))

\* the parametrization fields of a context, None when not set
ParamFieldsOf(c) ==
  <<c.parametrize_arg, c.parametrize_arg_val, c.parametrize_arg_vals, c.parametrize_arg_index>>

\* C20: a Parametrize node that started iterating over the values never
\* runs the inner chain with the un-parametrized mapping afterwards, and the
\* inner chain run because the parametrization was skipped sees no
\* parametrization field this node left in the context.
C20_ParametrizedOrSkippedNeverBoth ==
  \A t \in Threads :
    \A k \in Events(t, "fall") :
      /\ \A j \in 1..(k - 1) :
           ~(log[t][j].ev = "set" /\ log[t][j].idx = log[t][k].idx)
      /\ ParamFieldsOf(log[t][k].c) = <<None, None, None, None>>

\* the position in the invoked chain of the first node the decorators gave:
\* partial and pre_func put one node each in front of it
FirstNode(t) == Len(inv[t].mode) + 1
\* the mapping the top-level entry hands to the chain
Incoming(t) == ParseArgs(TargetOf(t).sig, inv[t].pos, inv[t].kwargs, TRUE, TRUE).m
\* the named contexts of node idx entered before event k of thread t: the
\* event of an entry follows the event of the load of its provider
NamedEntries(t, idx, k) ==
  {j \in 2..(k - 1) :
     /\ log[t][j].ev = "enter" /\ log[t][j].idx = idx
     /\ InvokedChain(t).nodes[idx].fns[log[t][j - 1].i].key # None}
\* the resources these contexts yielded, under their names
Yielded(t, idx, k) ==
  LET js == NamedEntries(t, idx, k)
      nameOf(j) == InvokedChain(t).nodes[idx].fns[log[t][j - 1].i].key[2]
  IN [n \in {nameOf(j) : j \in js} |-> log[t][CHOOSE j \in js : nameOf(j) = n].v[4]]

\* C21: in the Contexts node of the chain "ctx" every later provider, every
\* inner node and the end of the chain get the incoming mapping with the
\* resource of each named context entered so far under its name, over a
\* value the caller gave under that name; the unnamed context adds no
\* key; the mapping the node received stays as it was; the target gets
\* the resource for its parameter res.
C21_NamedResourcesInMapping ==
  \A t \in Threads :
    inv[t].chain = "ctx" =>
      /\ \A k \in 1..Len(log[t]) :
           LET e == log[t][k]
               expect == Merge(Incoming(t), Yielded(t, FirstNode(t), k))
           IN /\ e.ev \in {"load", "terminal"} /\ e.idx >= FirstNode(t) =>
                   /\ e.m = expect
                   /\ DOMAIN e.m \subseteq DOMAIN Incoming(t) \cup {"res", "r2"}
              /\ e.ev \in {"inner", "inner_done"} /\ e.idx = FirstNode(t) =>
                   e.m = Incoming(t)
              /\ e.ev = "target" => e.m = [arg1 |-> Incoming(t).arg1, res |-> S("resB")]
      /\ Idle(t) /\ inv[t].mode = <<>> /\ "arg1" \in DOMAIN inv[t].kwargs
           /\ inv[t].kwargs.arg1 = Lower =>
             sig[t] = Ret(Tup(<<Lower, S("resB")>>))

\* the caller gave its own res: the provider of the second named context,
\* the validator and the target all got the resource instead
C21_Witness ==
  /\ Finished(1) /\ inv[1].chain = "ctx" /\ inv[1].mode = <<>>
  /\ inv[1].kwargs = [arg1 |-> Lower, res |-> S("mine")]
  /\ \E k \in Events(1, "load") :
       /\ log[1][k].role = "context" /\ log[1][k].i = 3
       /\ log[1][k].m = [arg1 |-> Lower, res |-> S("resB")]
  /\ \E k \in Events(1, "load") :
       /\ log[1][k].role = "validator"
       /\ log[1][k].m = [arg1 |-> Lower, res |-> S("resB"), r2 |-> S("resC")]
  /\ \E k \in Events(1, "inner") : log[1][k].m = [arg1 |-> Lower, res |-> S("mine")]
  /\ sig[1] = Ret(Tup(<<Lower, S("resB")>>))

\* the loads of the default functions of node idx before event k of thread t
DefaultLoads(t, idx, k) ==
  {j \in 1..(k - 1) :
     log[t][j].ev = "load" /\ log[t][j].role = "default" /\ log[t][j].idx = idx}
\* the defaults these loads computed, under their parameter names
Computed(t, idx, k) ==
  LET js == {j \in DefaultLoads(t, idx, k) : log[t][j].v.kind = "ret"}
      nameOf(j) == InvokedChain(t).nodes[idx].fns[log[t][j].i].key[2]
  IN [n \in {nameOf(j) : j \in js} |-> log[t][CHOOSE j \in js : nameOf(j) = n].v.val]

\* C22: in the Defaults node of the chain "defdep" the default functions
\* are loaded in their declared order, each against the incoming mapping
\* with the defaults this node computed so far laid over it; the mapping
\* handed on is the incoming one with every computed default over it, so a
\* computed default replaces the caller's value and a default skipped in
\* partial mode leaves its parameter as the caller gave it.
C22_DefaultsInOrderOverCaller ==
  \A t \in Threads :
    inv[t].chain = "defdep" =>
      /\ \A k \in 1..Len(log[t]) :
           LET e == log[t][k]
               expect == Merge(Incoming(t), Computed(t, FirstNode(t), k))
           IN /\ e.ev = "load" /\ e.role = "default" =>
                   /\ e.m = expect
                   /\ e.i = Cardinality(DefaultLoads(t, FirstNode(t), k)) + 1
                   /\ e.v.kind = "exc" /\ Len(log[t]) > k /\ log[t][k + 1].ev = "load" =>
                        log[t][k + 1].m = e.m
              /\ e.ev = "terminal" =>
                   /\ e.m = expect
                   /\ \A j \in DefaultLoads(t, FirstNode(t), k) :
                        LET n == InvokedChain(t).nodes[FirstNode(t)].fns[log[t][j].i].key[2]
                        IN IF log[t][j].v.kind = "ret"
                           THEN e.m[n] = log[t][j].v.val
                           ELSE /\ n \in DOMAIN e.m <=> n \in DOMAIN Incoming(t)
                                /\ n \in DOMAIN e.m => e.m[n] = Incoming(t)[n]
      /\ Idle(t) /\ inv[t].mode = <<>> /\ inv[t].pos = <<>>
           /\ "arg2" \in DOMAIN inv[t].kwargs =>
             sig[t] = Ret(Tup(<<Upper, Upper, Upper>>))

\* the caller gave arg1 and arg2: the default of arg1, computed from arg2,
\* replaced the caller's arg1, and the default of arg3 was computed from it
C22_Witness ==
  /\ Finished(1) /\ inv[1].chain = "defdep" /\ inv[1].mode = <<>> /\ inv[1].pos = <<>>
  /\ inv[1].kwargs = [arg1 |-> Lower, arg2 |-> Upper]
  /\ \E k \in Events(1, "load") :
       /\ log[1][k].role = "default" /\ log[1][k].i = 2
       /\ log[1][k].m = [arg1 |-> Upper, arg2 |-> Upper, arg3 |-> None]
  /\ \E k \in Events(1, "terminal") :
       log[1][k].m = [arg1 |-> Upper, arg2 |-> Upper, arg3 |-> Upper]
  /\ sig[1] = Ret(Tup(<<Upper, Upper, Upper>>))

\* a partial invocation without arg2: the default of arg1 was skipped, arg1
\* stayed as the caller gave it and the default of arg3 was computed from it
C22_WitnessSkipped ==
  /\ Finished(1) /\ inv[1].chain = "defdep" /\ inv[1].mode = <<"partial">>
  /\ inv[1].pos = <<>> /\ inv[1].kwargs = [arg1 |-> Lower]
  /\ \E k \in Events(1, "load") :
       log[1][k].role = "default" /\ log[1][k].i = 1 /\ log[1][k].v = Raise(BindError)
  /\ \E k \in Events(1, "terminal") : log[1][k].m = [arg1 |-> Lower, arg3 |-> Lower]

\* C23: an invocation during which a context manager swallowed the error
\* of the inner chain or of the target returns None and leaves the thread
\* without a Call Context; the chain "ctxsup" does so when its validator
\* rejects arg1 and when the target cannot be bound.
C23_SuppressedErrorReturnsNone ==
  \A t \in Threads :
    /\ Finished(t) /\ Swallowed(t) => sig[t] = Ret(None) /\ cur[t] = NoCall
    /\ Finished(t) /\ inv[t].chain = "ctxsup" /\ inv[t].mode = <<>> /\ inv[t].pos = <<>>
         /\ (inv[t].kwargs = [arg1 |-> Lower] \/ ("arg1" \in DOMAIN inv[t].kwargs
                                                  /\ inv[t].kwargs.arg1 = Upper)) =>
            Swallowed(t) /\ sig[t] = Ret(None)

\* the validator inside the node rejected arg1 with ValueError, the managers
\* were released with it, one of them swallowed it, and the call returned
C23_Witness ==
  /\ Finished(1) /\ inv[1].chain = "ctxsup" /\ inv[1].mode = <<>>
  /\ \E k \in Events(1, "inner_done") : log[1][k].v = Raise(ValueError)
  /\ Swallowed(1) /\ Cardinality(Events(1, "exit")) = 2
  /\ sig[1] = Ret(None) /\ cur[1] = NoCall

\* what a result of the binder must be for the call held in lazy: the
\* positional arguments on the first parameters in order, the keywords on
\* the parameters they name, the declared default on a parameter nobody
\* filled, nothing else under a declared name
BoundAsDeclared(out) ==
  LET sg == lazy.sig
      np == Len(lazy.args)
  IN \A i \in 1..Len(sg) :
       LET n == sg[i].name
       IN IF i <= np THEN n \in DOMAIN out.m /\ out.m[n] = lazy.args[i]
          ELSE IF n \in DOMAIN lazy.kwargs
          THEN n \in DOMAIN out.m /\ out.m[n] = lazy.kwargs[n]
          ELSE IF sg[i].hasdef THEN n \in DOMAIN out.m /\ out.m[n] = sg[i].def
          ELSE n \notin DOMAIN out.m
\* the caller's keywords the signature does not declare
ExtraKeys == DOMAIN lazy.kwargs \ SigNames(lazy.sig)
\* a required parameter was filled neither by position nor by keyword
Unfilled ==
  \E i \in (Len(lazy.args) + 1)..Len(lazy.sig) :
    ~lazy.sig[i].hasdef /\ lazy.sig[i].name \notin DOMAIN lazy.kwargs
\* bind and bind_partial both refuse these: a positional argument too many,
\* a parameter given by position and by keyword
Unbindable ==
  \/ Len(lazy.args) > Len(lazy.sig)
  \/ \E i \in 1..Len(lazy.sig) : i <= Len(lazy.args) /\ lazy.sig[i].name \in DOMAIN lazy.kwargs

\* C24: a result of the binder holds the positional arguments left to
\* right and the declared default of every unset parameter; with
\* allow_extra it holds every undeclared keyword of the caller as given,
\* without it declared parameters only; with allow_partial the unfilled
\* required parameters are left out, without it they make the call fail
\* with BindError; the top-level bind has both flags on.
C24_BinderFlags ==
  lazy.done =>
    /\ lazy.out.ok <=> ~Unbindable /\ (lazy.partial \/ ~Unfilled)
    /\ lazy.out.ok =>
         /\ BoundAsDeclared(lazy.out)
         /\ DOMAIN lazy.out.m \ SigNames(lazy.sig) = IF lazy.extra THEN ExtraKeys ELSE {}
         /\ \A k \in DOMAIN lazy.out.m \ SigNames(lazy.sig) : lazy.out.m[k] = lazy.kwargs[k]
    /\ lazy.entry.ok <=> ~Unbindable
    /\ lazy.entry.ok =>
         /\ BoundAsDeclared(lazy.entry)
         /\ DOMAIN lazy.entry.m \ SigNames(lazy.sig) = ExtraKeys
         /\ \A k \in ExtraKeys : lazy.entry.m[k] = lazy.kwargs[k]

\* a partial bind with extras: one positional argument, a declared default
\* applied, an undeclared keyword kept
C24_Witness ==
  /\ lazy.done /\ lazy.extra /\ lazy.partial
  /\ lazy.sig = <<P("a"), PD("b", S("db"))>> /\ lazy.args = <<S("p1")>>
  /\ DOMAIN lazy.kwargs = {"x"}
  /\ lazy.out.ok
  /\ DOMAIN lazy.out.m = {"a", "b", "x"}
  /\ lazy.out.m["a"] = S("p1") /\ lazy.out.m["b"] = S("db") /\ lazy.out.m["x"] = S("k_x")

\* the log before a step is the beginning of the log after it
IsPrefix(c1, c2) == Len(c1) <= Len(c2) /\ SubSeq(c2, 1, Len(c1)) = c1
\* an operation was recorded on the Lazy value by this step
Recording == Len(lazy'.ops) = Len(lazy.ops) + 1
\* the value was loaded by this step
Loading == lazy.out = NoSig /\ lazy'.out # NoSig
\* the accesses and invocations that replaying the log makes on the value:
\* a named step is a lookup, followed by a call when arguments are attached
\* to it; a step without a name is a call without arguments
RECURSIVE Replayed(_)
Replayed(chain) ==
  IF chain = <<>> THEN <<>>
  ELSE LET st == Head(chain)
       IN (IF st[1] = None THEN << <<"call", Tup(<<>>), Dict(EmptyMap)>> >>
           ELSE IF st[2] = None /\ st[3] = None THEN << <<"attr", st[1]>> >>
           ELSE << <<"attr", st[1]>>, <<"call", st[2], st[3]>> >>)
          \o Replayed(Tail(chain))

\* C25 as stated: recording an operation leaves every step already in the
\* log as it was, and loading leaves the log as it was.
C25_LogAppendOnly ==
  [][/\ Recording => IsPrefix(lazy.chain, lazy'.chain)
     /\ Loading => lazy'.chain = lazy.chain]_vars

\* what recording an operation does to the log
C25_Step ==
  /\ Recording =>
       LET n == Len(lazy.chain)
           op == lazy'.ops[Len(lazy'.ops)]
       IN /\ Len(lazy'.chain) >= n
          /\ \A i \in 1..(n - 1) : lazy'.chain[i] = lazy.chain[i]
          /\ op[1] = "attr" => lazy'.chain = Append(lazy.chain, <<op[2], None, None>>)
          /\ op[1] = "call" /\ n = 0 => lazy'.chain = << <<None, op[2], op[3]>> >>
          /\ op[1] = "call" /\ n > 0 =>
               /\ Len(lazy'.chain) = n
               /\ lazy'.chain[n] = <<lazy.chain[n][1], op[2], op[3]>>
  /\ Loading => lazy'.chain = lazy.chain /\ lazy'.ops = lazy.ops

\* C25, as the code has it: the log never shrinks and no step before the
\* last one is ever changed; an attribute access appends a step; an
\* invocation appends a step only when the log is empty, and otherwise
\* puts its arguments on the last step in place of what that step held;
\* loading leaves the log as it was and replays its steps in their order,
\* each once.
C25_LogGrowsOnlyLastStepRewritten ==
  /\ [][C25_Step]_vars
  /\ [](lazy.out.kind # "none" =>
          \E b \in Bases : lazy.out = Ret(Direct(b, Replayed(lazy.chain))))

\* a value loaded after an access, an invocation and an access: the
\* invocation is on the first step, and two steps were replayed
C25_Witness ==
  /\ lazy.out.kind = "ret" /\ Len(lazy.ops) = 3 /\ Len(lazy.chain) = 2
  /\ lazy.chain[1][2] # None /\ lazy.chain[2][2] = None
  /\ Len(Replayed(lazy.chain)) = 3

\* the flags Args.partial and Args.pre_func set for the invocation of thread t
ModeFlags(t) ==
  [is_partial |-> B(\E k \in 1..Len(inv[t].mode) : inv[t].mode[k] = "partial"),
   is_pre_func |-> B(PreOnly(t))]

\* C26: a top-level invocation attempted while one is active is rejected
\* and leaves the active Call Context as it was, field by field: whatever
\* runs next sees that context; in the chain "re_catch" the validator
\* catches the error and the invocation goes on to its end with the flags
\* of its mode; and the thread has no context once the outer invocation is
\* over.
C26_RejectedInvocationKeepsContext ==
  \A t \in Threads :
    /\ \A j \in Events(t, "nested") :
         /\ log[t][j].c.has
         /\ j = Len(log[t]) /\ stack[t] # <<>> => cur[t] = log[t][j].c
         /\ j < Len(log[t]) /\ log[t][j + 1].ev \in {"load", "terminal", "target"} =>
              log[t][j + 1].c = log[t][j].c
         /\ Finished(t) => cur[t] = NoCall
    /\ inv[t].chain = "re_catch" =>
         /\ \A k \in 1..Len(log[t]) :
              log[t][k].ev \in {"nested", "terminal", "target"} =>
                /\ log[t][k].c.is_partial = ModeFlags(t).is_partial
                /\ log[t][k].c.is_pre_func = ModeFlags(t).is_pre_func
         /\ Finished(t) /\ inv[t].kwargs = [arg1 |-> Lower] =>
              /\ Events(t, "nested") # {} /\ Events(t, "terminal") # {}
              /\ sig[t] = IF PreOnly(t) THEN Ret(None) ELSE Ret(Lower)

\* a partial invocation whose validator tried to call a decorated function
\* and caught the error: the target ran afterwards under the partial flag,
\* and the context is gone at the end
C26_Witness ==
  /\ Finished(1) /\ inv[1].chain = "re_catch" /\ inv[1].mode = <<"partial">>
  /\ Events(1, "nested") # {}
  /\ \E k \in Events(1, "target") :
       /\ \E j \in Events(1, "nested") : j < k
       /\ Truthy(log[1][k].c.is_partial)
  /\ sig[1] = Ret(Lower) /\ cur[1] = NoCall

\* loading x against m falls back to the default x was given: x is a
\* Deferred Call or Value Reference whose function cannot be bound to m, or
\* a First-Available none of whose candidates loads
FellBack(x, m) ==
  \/ /\ x.kind = "func" /\ x.hasdef /\ x.wraps.kind = "py"
     /\ SigRequired(x.wraps.sig) \ DOMAIN m # {}
  \/ x.kind = "first" /\ x.hasdef /\ FirstLoadable(x, m) = 0
\* the value that x.upper() is for the value v, v itself when nothing was
\* recorded on x
Chained(x, v) == IF x.chain = <<>> THEN v ELSE UpperOf(v)

\* C27: a load that falls back to the supplied default gives the default
\* itself when no step was recorded on the Lazy value, and otherwise what
\* the recorded steps give on the default, as a load of a Value Reference
\* whose name is present gives what they give on the value of that name.
C27_ChainReplayedOnDefault ==
  lazy.out.kind # "none" =>
    /\ FellBack(lazy.x, lazy.m) => lazy.out = Ret(Chained(lazy.x, LoadDefault))
    /\ lazy.x.kind = "func" /\ lazy.x.wraps.kind = "py" /\ lazy.x.wraps.body = "id"
         /\ lazy.x.wraps.sig[1].name \in DOMAIN lazy.m =>
            lazy.out = Ret(Chained(lazy.x, lazy.m[lazy.x.wraps.sig[1].name]))

\* first(..., default=D).upper() loaded against a mapping in which no
\* candidate is found: the result is D.upper()
C27_Witness ==
  /\ lazy.out.kind = "ret" /\ lazy.x.kind = "first" /\ lazy.x.vals # <<>>
  /\ FellBack(lazy.x, lazy.m) /\ lazy.x.chain # <<>>
  /\ lazy.out = Ret(UpperOf(LoadDefault)) /\ lazy.out # Ret(LoadDefault)

====
